---- MODULE Spec2Model ----
(***************************************************************************)
(* Brick Breaker mini-app: a verification model of three programs of the   *)
(* repository.                                                             *)
(*                                                                         *)
(*  - the daily variant, src/unnamed/part_005 (one React component that    *)
(*    keeps the world in refs and runs loop/stepGame/stepDrops per frame,  *)
(*    and its remote board and score submission);                          *)
(*  - the Phase-2 app, src/app/BrickBreakerMiniApp.tsx (class GameEngine,  *)
(*    StorageStore, DefaultRewards, LocalLeaderboard and the component     *)
(*    that wires them);                                                    *)
(*  - the daily leaderboard service, src/app/api/leaderboard/route.ts      *)
(*    (GET and POST over the tables bb_scores and bb_nonces).              *)
(*                                                                         *)
(* In the specifications of the game loop, geometry (positions,            *)
(* velocities, paddle overlap) is not represented: what a frame finds (a   *)
(* ball below the bottom edge, a ball overlapping a brick, a drop          *)
(* overlapping the paddle) is a nondeterministic input of the frame, and   *)
(* everything the code decides from those findings is translated statement *)
(* by statement.  The paddle test of one ball is computed with numbers in  *)
(* SpecBounce.                                                             *)
(***************************************************************************)
EXTENDS Integers, Sequences, FiniteSets, TLC

(***************************************************************************)
(* Bounds of the model.                                                    *)
(***************************************************************************)
NumBricks == 2        \* bricks of a generated level (the code makes 28..56)
MaxLevelD == 2        \* highest level the daily variant is driven to
MaxOccur == 2         \* terminal states entered in daily mode before launches stop
NumBricksE == 2       \* bricks of a Phase-2 level (the code makes 40..63)
MaxLevelA == 2        \* highest level the Phase-2 app is driven to
MaxRuns == 2          \* matches begun (startGame / nextLevel) in one behaviour
MaxDay == 3           \* calendar days of one behaviour, numbered 1..MaxDay
MaxRawLeft == 5       \* largest `left` of a stored record given to loadAttempts
MaxMatches == 1       \* matches begun while the engine is driven call by call
MaxPowerUps == 1      \* power-ups falling at one time in the Phase-2 engine
MaxCombo == 2         \* combo count up to which a hit can still be a quick one
TimeStep == 4000      \* ms by which performance.now() advances at a time
MaxNow == 12000       \* last value of performance.now() in one behaviour
MaxGenLevel == 2      \* highest level makeLevelBricks is called for
MaxGenCalls == 3      \* calls of makeLevelBricks in one behaviour
MaxGenHits == 1       \* bricks of a layout that are hit between two calls
MaxStreak == 2        \* largest stored streak count a behaviour starts from
MaxFetches == 3       \* calls of fetchRemoteLeaderboard in one behaviour
MaxRequests == 2      \* requests of POST /api/leaderboard in one behaviour
MaxProfileOps == 2    \* win, lose and setSkin handlers of one behaviour
MaxSaves == 3         \* calls of saveLeaderboard in one behaviour
MaxDrops == 2         \* power-ups falling at one time in the spec of the drops
MaxBricksLeft == 3   \* bricks still alive when the spec of the win commit begins
MaxPaddleSteps == 3  \* calls of step in the spec of the paddle
NumScoreReqs == 2    \* requests to POST /api/score in one behaviour
MaxWeeklySubmits == 3 \* calls of submitWeekly in one behaviour
MaxHits == 4          \* brick hits of one behaviour in the spec of the combo

(***************************************************************************)
(* Constants of src/app/BrickBreakerMiniApp.tsx.                           *)
(***************************************************************************)
DAILY_ATTEMPTS == 3
MAX_LEVEL == 30
BOSS_EVERY == 5
EFFECT_WIDE_MS == 10000
EFFECT_SLOW_MS == 7000
EFFECT_FIRE_MS == 8000
EFFECT_MAGNET_MS == 7000

(***************************************************************************)
(* Constants of src/unnamed/part_005.                                      *)
(***************************************************************************)
GAME_H == 520
PADDLE_H == 18
BALL_R == 7

VARIABLES
    \* ---- daily variant (src/unnamed/part_005) ----
    gameState,              \* useState<GameState>, with queued updates applied
    gameStateRef,           \* gameStateRef.current = the gameState of the last render
    renderPending,          \* a frame queued React updates that are not rendered yet
    practiceMode,
    practiceInfiniteLives,
    score,
    scoreRef,
    lives,
    level,
    levelRef,
    ballsRef,               \* Seq of [launched : BOOLEAN]
    bricksRef,              \* Seq of [alive : BOOLEAN, hp : Int]
    dropsRef,               \* Seq of PowerUpType (the alive drops)
    slowUntilRef,           \* 0, or 1 for a deadline performance.now() + 9000
    widenUntilRef,          \* 0, or 1 for a deadline performance.now() + 12000
    lastCommitKeyRef,       \* "" or the state of `${dailyId}:${state}`
    lastCommittedStateRef,  \* prev of the gameover commit effect
    lbSaves,                \* history: calls of saveLeaderboard
    remoteSubmits,          \* history: calls of submitRemoteScore
    occurrences,            \* history: entries into win / gameover in daily mode
    commitCalls,            \* history: calls of commitLeaderboardIfNeeded in daily mode
    lastOp,                 \* history: the handler that ran last
    \* ---- Phase-2 app (src/app/BrickBreakerMiniApp.tsx) ----
    today,                  \* getIstanbulDateKey(), as a day number 1..MaxDay
    mounted,                \* the INIT and ENGINE-create effects have run
    storedAttempts,         \* localStorage[STORAGE_ATTEMPTS]
    storedProfile,          \* localStorage[STORAGE_PROFILE]: lastPlayDateKey, streakDays
    attemptsLeft,           \* useState(DAILY_ATTEMPTS)
    dateKey,                \* useState(""): 0 for ""
    appPracticeMode,        \* useState(false) practiceMode of the Phase-2 component
    appLevel,               \* useState(1) level of the Phase-2 component
    runConsumedAttemptRef,
    cbPracticeMode,         \* practiceMode captured by the closures given to new GameEngine
    engineState,            \* GameEngine.state (React gameState mirrors it by the "state" event)
    engineLevel,            \* GameEngine.level
    engineScore,            \* GameEngine.score
    engineBricks,           \* GameEngine.bricks: the hp of each brick
    engineAlive,            \* GameEngine.bricks: the alive flag of each brick
    bricksRemaining,        \* GameEngine.bricksRemaining
    combo,                  \* GameEngine.combo
    cw,                     \* GameEngine.cw, px
    paddleW,                \* GameEngine.paddleW, in 1/1000 px
    slowMul,                \* GameEngine.slowMul, in 1/100
    fireball,               \* GameEngine.fireball
    magnet,                 \* GameEngine.magnet
    stuckToPaddle,          \* GameEngine.stuckToPaddle
    effectUntil,            \* GameEngine.effectUntil: wide, slow, fire, magnet (ms, 0 = off)
    powerUps,               \* GameEngine.powerUps: how many are falling
    now,                    \* performance.now(), ms
    events,                 \* history: the events the engine emitted in the last handler
    movedWith,              \* history: the slowMul the last step moved the ball with, 0 if none
    burned,                 \* history: the last step hit a brick as a fireball
    caught,                 \* history: the power-up types the last step picked up, in order
    reverted,               \* history: the effects the last step's updateEffectsTimers ended
    weeklySubmits,          \* history: calls of LeaderboardAdapter.submitWeekly
    runDecrements,          \* history: what attemptsLeft lost since the last startGame
    runMode,                \* history: "daily" / "practice" while the mode is the one the last
                            \* startGame found, "mixed" once it was switched, "none" before
    runs,                   \* history: matches begun
    lastHandler,            \* history: the Phase-2 handler that ran last
    \* ---- StorageStore.loadAttempts as a function ----
    loadRaw,                \* the stored value the call found
    loadResult,             \* what the call returned
    loadDone,               \* the call has been made
    \* ---- makeLevelBricks of part_005 called again and again ----
    genDailyId,             \* dailyIdRef.current, a text
    genUserKey,             \* userKeyRef.current, a text
    genBricks,              \* bricksRef.current with x, y, w, h, alive, hp
    genDrops,               \* dropsRef.current.length
    genCalls,               \* history: calls of makeLevelBricks
    genSeen,                \* history: every call's dailyId, userKey, lvl and list
    genRepeat,              \* history: the last call's arguments had been seen before
    \* ---- the streak on a day's first load ----
    stToday,                \* the calendar day of the clock
    stStore,                \* part_005 localStorage: bb_<user>_streak_last / _count
    stProfile,              \* Phase-2 profile: lastPlayDateKey, streakDays
    stLastDay,              \* history: the day each store's last-play key was written on
    stCount,                \* history: the count part_005 stored, as a number
    stCase,                 \* history: last-play day, count and day the last call met
    stStreak,               \* the count the last call produced
    stOp,                   \* history: the last call
    \* ---- Phase-2 app: the profile ----
    pfDay,                  \* the calendar day of the clock
    pfStoredProfile,        \* localStorage[STORAGE_PROFILE]
    pfStoredAttempts,       \* localStorage[STORAGE_ATTEMPTS]
    pfProfile,              \* useState<Profile | null>
    pfAttemptsLeft,         \* useState attemptsLeft
    pfMounted,              \* the INIT effect has run since the page was opened
    pfGrants,               \* history: per day, the calls of applyDailyReward that granted
    pfCall,                 \* history: the last call of applyDailyReward, in and out
    pfWrites,               \* history: the profiles the last handler stored or put in state
    pfOps,                  \* history: win, lose and setSkin handlers run
    pfOp,                   \* history: the last handler
    \* ---- part_005: one ball at the paddle test of stepGame ----
    bnW,                    \* paddleRef.current.w
    bnDx,                   \* b.x - p.x, px
    bnY,                    \* b.y, px
    bnVx,                   \* b.vx, 1/100 px/s
    bnVy,                   \* b.vy, 1/100 px/s
    bnBefore,               \* history: y, vx, vy the test found
    bnHit,                  \* history: the body of the paddle test ran
    bnDone,                 \* history: the test has been made
    \* ---- POST /api/leaderboard ----
    srvNonceUnique,         \* bb_nonces.nonce carries a UNIQUE constraint
    srvScoresUnique,        \* bb_scores carries one on (daily_id, address, mode)
    srvNonces,              \* rows of bb_nonces
    srvScores,              \* rows of bb_scores
    srvReqs,                \* the requests, in the order they arrived: body, fields,
                            \* the await they stand at, the response
    srvOp,                  \* history: the last step
    \* ---- the remote board of part_005 ----
    rbRows,                 \* rows of bb_scores for the day
    rbFetches,              \* the calls of fetchRemoteLeaderboard, in the order issued
    remoteLb,               \* useState<RemoteLBEntry[]>([])
    remoteLbErr,            \* useState<string | null>(null)
    rbApplied,              \* history: which call's response setRemoteLb was last given
    rbOp,                   \* history: the last step
    \* ---- part_005: the promises of submitRemoteScore ----
    sbSigned,               \* calls whose await signMessageCompat(msg) has settled
    sbPosted,               \* calls that sent their POST
    sbAnswered,             \* calls whose POST has settled
    sbRefreshes,            \* fetchRemoteLeaderboard calls of the .then of a submission
    \* ---- part_005: the local leaderboard ----
    lsRaw,                  \* localStorage[keyLeaderboard()]
    lsLb,                   \* useState<LBEntry[]>([])
    lsNow,                  \* Date.now()
    lsBefore,               \* history: the entries the last saveLeaderboard parsed
    lsEntry,                \* history: the entry it was given
    lsSaves,                \* history: calls of saveLeaderboard
    \* ---- StorageStore.loadAttempts / loadProfile on a stored item ----
    skKey,                  \* STORAGE_ATTEMPTS or STORAGE_PROFILE
    skToday,                \* getIstanbulDateKey()
    skItem,                 \* localStorage.getItem(key) before the call
    skOut,                  \* history: threw, returned, left in storage
    skDone,                 \* history: the call was made
    \* ---- falling power-ups: stepDrops of part_005, the loop of GameEngine.step ----
    dpProgram,              \* "daily" (part_005) or "engine" (GameEngine)
    dpDrops,                \* dropsRef.current / this.powerUps, lengths in 1/10 px
    dpPaddleX,              \* p.x (its middle) / this.paddleX (its left edge)
    dpPaddleW,              \* p.w / this.paddleW
    dpApplied,              \* history: per drop, the calls of applyPowerUp for it
    dpLeftAt,               \* history: per drop, its y when it left the list, 0 before
    \* ---- GameEngine: combo and scoring of the brick hits ----
    cmBoss,                 \* isBossLevel(this.level)
    cmNow,                  \* performance.now(), ms
    cmLastHitAt,            \* this.lastHitAt
    cmCombo,                \* this.combo
    cmScore,                \* this.score
    cmHit,                  \* history: the last hit: what it found and what it gained
    cmHits,                 \* history: brick hits
    \* ---- part_005: the score that a win commits ----
    wcPractice,             \* practiceMode
    wcBalls,                \* balls in play
    wcAlive,                \* bricks of bricksRef.current with alive = true (hp 1 each)
    wcState,                \* gameState
    wcScore,                \* score (the state, with the queued updates applied)
    wcScoreRef,             \* scoreRef.current
    wcTodayBest,            \* todayBest
    wcKey,                  \* lastCommitKeyRef.current
    wcEntries,              \* history: the scores of the entries given to saveLeaderboard
    wcBestBefore,           \* history: todayBest when the match began
    \* ---- GameEngine: the paddle of a running match, lengths in 1/1000 px ----
    pdX,                    \* this.paddleX
    pdW,                    \* this.paddleW
    pdWide,                 \* this.effectUntil.wide is set
    pdInput,                \* this.input: left, right, pointerActive
    pdOp,                   \* history: the call made last
    pdSteps,                \* history: calls of step
    \* ---- POST /api/score for one (weekKey, playerId) ----
    scUnique,               \* the table has a UNIQUE (week_key, player_id); the repository has no schema
    scRows,                 \* brickbreaker_scores: the score of each row of the pair, by id
    scReqs,                 \* per request: where it is, its body, the row its select returned
    scOp,                   \* history: the request that moved last
    \* ---- LocalLeaderboard: the weekly board in localStorage ----
    wkStored,               \* localStorage[STORAGE_WEEKLY]: weekKey (0: no item) and top
    wkWeek,                 \* the week getIstanbulWeekKey() names
    wkBefore,               \* history: top of the current week before the last submitWeekly
    wkEntry,                \* history: the entry of the last submitWeekly
    wkSubmits               \* history: calls of submitWeekly

dailyVars == << gameState, gameStateRef, renderPending, practiceMode,
                practiceInfiniteLives, score, scoreRef, lives, level, levelRef,
                ballsRef, bricksRef, dropsRef, slowUntilRef, widenUntilRef,
                lastCommitKeyRef, lastCommittedStateRef, lbSaves, remoteSubmits,
                occurrences, commitCalls, lastOp >>

appVars == << today, mounted, storedAttempts, storedProfile, attemptsLeft, dateKey,
              appPracticeMode, appLevel, runConsumedAttemptRef, cbPracticeMode,
              engineState, engineLevel, engineScore, engineBricks, engineAlive,
              bricksRemaining,
              combo, cw, paddleW, slowMul, fireball, magnet, stuckToPaddle,
              effectUntil, powerUps, now, events, movedWith, burned, caught, reverted,
              weeklySubmits, runDecrements, runMode, runs, lastHandler >>

loadVars == << loadRaw, loadResult, loadDone >>

genVars == << genDailyId, genUserKey, genBricks, genDrops, genCalls, genSeen,
              genRepeat >>

streakVars == << stToday, stStore, stProfile, stLastDay, stCount, stCase, stStreak,
                 stOp >>

profVars == << pfDay, pfStoredProfile, pfStoredAttempts, pfProfile, pfAttemptsLeft,
               pfMounted, pfGrants, pfCall, pfWrites, pfOps, pfOp >>

bounceVars == << bnW, bnDx, bnY, bnVx, bnVy, bnBefore, bnHit, bnDone >>

earlyVars == << dailyVars, appVars, loadVars, genVars, streakVars >>

srvVars == << srvNonceUnique, srvScoresUnique, srvNonces, srvScores, srvReqs, srvOp >>

boardVars == << rbRows, rbFetches, remoteLb, remoteLbErr, rbApplied, rbOp >>

submitVars == << sbSigned, sbPosted, sbAnswered, sbRefreshes >>

localVars == << lsRaw, lsLb, lsNow, lsBefore, lsEntry, lsSaves >>

storedVars == << skKey, skToday, skItem, skOut, skDone >>

dropVars == << dpProgram, dpDrops, dpPaddleX, dpPaddleW, dpApplied, dpLeftAt >>

comboVars == << cmBoss, cmNow, cmLastHitAt, cmCombo, cmScore, cmHit, cmHits >>

commitVars == << wcPractice, wcBalls, wcAlive, wcState, wcScore, wcScoreRef,
                wcTodayBest, wcKey, wcEntries, wcBestBefore >>

paddleVars == << pdX, pdW, pdWide, pdInput, pdOp, pdSteps >>

scoreVars == << scUnique, scRows, scReqs, scOp >>

weeklyVars == << wkStored, wkWeek, wkBefore, wkEntry, wkSubmits >>

finalVars == << commitVars, paddleVars, scoreVars, weeklyVars >>

lastVars == << localVars, storedVars, dropVars, comboVars, finalVars >>

lateVars == << profVars, bounceVars, srvVars, boardVars, submitVars, lastVars >>

vars == << dailyVars, appVars, loadVars, genVars, streakVars, lateVars >>

GameStates == {"idle", "running", "paused", "gameover", "win"}
PowerUpTypes == {"widen", "slow", "multiball"}

(***************************************************************************)
(* The daily variant as one record, so that a handler is a function from   *)
(* record to record and a frame is the composition the code runs.          *)
(***************************************************************************)
D == [ gameState |-> gameState, gameStateRef |-> gameStateRef,
       renderPending |-> renderPending, practiceMode |-> practiceMode,
       practiceInfiniteLives |-> practiceInfiniteLives,
       score |-> score, scoreRef |-> scoreRef, lives |-> lives,
       level |-> level, levelRef |-> levelRef,
       ballsRef |-> ballsRef, bricksRef |-> bricksRef, dropsRef |-> dropsRef,
       slowUntilRef |-> slowUntilRef, widenUntilRef |-> widenUntilRef,
       lastCommitKeyRef |-> lastCommitKeyRef,
       lastCommittedStateRef |-> lastCommittedStateRef,
       lbSaves |-> lbSaves, remoteSubmits |-> remoteSubmits,
       occurrences |-> occurrences, commitCalls |-> commitCalls,
       lastOp |-> lastOp ]

DailyAssign(s) ==
    /\ gameState' = s.gameState
    /\ gameStateRef' = s.gameStateRef
    /\ renderPending' = s.renderPending
    /\ practiceMode' = s.practiceMode
    /\ practiceInfiniteLives' = s.practiceInfiniteLives
    /\ score' = s.score
    /\ scoreRef' = s.scoreRef
    /\ lives' = s.lives
    /\ level' = s.level
    /\ levelRef' = s.levelRef
    /\ ballsRef' = s.ballsRef
    /\ bricksRef' = s.bricksRef
    /\ dropsRef' = s.dropsRef
    /\ slowUntilRef' = s.slowUntilRef
    /\ widenUntilRef' = s.widenUntilRef
    /\ lastCommitKeyRef' = s.lastCommitKeyRef
    /\ lastCommittedStateRef' = s.lastCommittedStateRef
    /\ lbSaves' = s.lbSaves
    /\ remoteSubmits' = s.remoteSubmits
    /\ occurrences' = s.occurrences
    /\ commitCalls' = s.commitCalls
    /\ lastOp' = s.lastOp

DailySet(s) ==
    /\ DailyAssign(s)
    /\ UNCHANGED << appVars, loadVars, genVars, streakVars, lateVars >>

\* setGameState(st); a new occurrence of a terminal state is counted when the
\* state was not that terminal state already and the mode is daily.
setGameState(s, st) ==
    [s EXCEPT !.gameState = st,
              !.occurrences = IF st \in {"win", "gameover"} /\ s.gameState # st
                                 /\ ~s.practiceMode
                              THEN @ + 1 ELSE @]

\* makeLevelBricks(lvl): the layout is a function of (dailyId, userKey, lvl)
\* alone; the seeded draw rand() < 0.18 is stood for by a fixed rule on
\* (lvl, index).  Also empties the drops.
LevelBricks(lvl) ==
    [i \in 1..NumBricks |-> [alive |-> TRUE, hp |-> IF (lvl + i) % 3 = 0 THEN 2 ELSE 1]]

makeLevelBricks(s, lvl) ==
    [s EXCEPT !.bricksRef = LevelBricks(lvl), !.dropsRef = << >>]

resetBallsToPaddle(s) ==
    [s EXCEPT !.ballsRef = << [launched |-> FALSE] >>]

resetRound(s) ==
    resetBallsToPaddle([s EXCEPT !.slowUntilRef = 0, !.widenUntilRef = 0])

resetGame(s, nextLevel) ==
    LET s1 == [s EXCEPT !.score = 0, !.lives = 3, !.level = nextLevel]
        s2 == resetRound(makeLevelBricks(s1, nextLevel))
        s3 == setGameState(s2, "idle")
    IN  [s3 EXCEPT !.lastCommitKeyRef = ""]

\* DAILY_ATTEMPTS is Infinity in this variant: both early returns answer true.
spendAttemptIfNeeded(s) == TRUE

anyLaunched(balls) == \E i \in 1..Len(balls) : balls[i].launched

launchBalls(s) ==
    IF ~spendAttemptIfNeeded(s) THEN s
    ELSE IF anyLaunched(s.ballsRef) THEN s
    ELSE setGameState(
           [s EXCEPT !.ballsRef = [i \in 1..Len(s.ballsRef) |-> [launched |-> TRUE]]],
           "running")

nextLevelFn(s) ==
    LET next == s.level + 1
        s1 == resetRound(makeLevelBricks(s, next))
    IN  [setGameState(s1, "idle") EXCEPT !.level = next]

canCommitOnce_Always(key, state) == TRUE

\* canCommitOnce(state): false when the key of the last commit is this state's
\* key (the caller then records the key, see commitLeaderboardIfNeeded).
canCommitOnce(key, state) == key # state

commitLeaderboardIfNeeded(s, finalState) ==
    IF s.practiceMode THEN s
    ELSE IF ~canCommitOnce(s.lastCommitKeyRef, finalState)
         THEN [s EXCEPT !.commitCalls = @ + 1]
    ELSE [s EXCEPT !.lastCommitKeyRef = finalState,
                   !.commitCalls = @ + 1,
                   !.lbSaves = @ + 1,
                   !.remoteSubmits = @ + 1]

RemoveAt(seq, i) == [k \in 1..(Len(seq) - 1) |-> IF k < i THEN seq[k] ELSE seq[k + 1]]

loseLifeOrBall_ChargeEachBall(s, ballIndex) ==
    LET s1 == [s EXCEPT !.ballsRef = RemoveAt(s.ballsRef, ballIndex),
                        !.lives = @ - 1]
    IN  IF Len(s1.ballsRef) > 0 THEN s1
        ELSE resetBallsToPaddle(
               setGameState(s1, IF s1.lives <= 0 THEN "gameover" ELSE "idle"))

loseLifeOrBall(s, ballIndex) ==
    LET s1 == [s EXCEPT !.ballsRef = RemoveAt(s.ballsRef, ballIndex)]
    IN  IF Len(s1.ballsRef) > 0 THEN s1
        ELSE IF s1.practiceMode /\ s1.practiceInfiniteLives
             THEN setGameState(resetBallsToPaddle(s1), "idle")
        ELSE LET next == s1.lives - 1
                 over == next <= 0
             IN  resetBallsToPaddle(
                   setGameState([s1 EXCEPT !.lives = next],
                                IF over THEN "gameover" ELSE "idle"))

\* spawnDropMaybe: the two Math.random() draws are the input `pick`
\* ("none" when r > chance).
spawnDropMaybe(s, pick) ==
    IF pick = "none" THEN s
    ELSE [s EXCEPT !.dropsRef = Append(@, pick)]

applyPowerUp(s, type) ==
    IF type = "widen" THEN [s EXCEPT !.widenUntilRef = 1]
    ELSE IF type = "slow" THEN [s EXCEPT !.slowUntilRef = 1]
    ELSE IF Len(s.ballsRef) >= 4 THEN s
    ELSE [s EXCEPT !.ballsRef = @ \o << [launched |-> TRUE], [launched |-> TRUE] >>]

noneAlive(bricks) == \A j \in 1..Len(bricks) : ~bricks[j].alive

\* One ball of the loop `for (i = balls.length - 1; i >= 0; i--)`.
\* ev[i] is what the frame finds for ball i: 0 for nothing, -1 for a ball below
\* the bottom edge, j >= 1 for the index of the first brick it overlaps.
BallBody(s, i, ev, spawn) ==
    IF ~s.ballsRef[i].launched THEN s
    ELSE IF ev[i] = -1 THEN loseLifeOrBall(s, i)
    ELSE IF ev[i] \in 1..NumBricks /\ s.bricksRef[ev[i]].alive
         THEN LET j == ev[i]
                  hp == s.bricksRef[j].hp - 1
              IN  IF hp <= 0
                  THEN spawnDropMaybe(
                         [s EXCEPT !.bricksRef[j] = [alive |-> FALSE, hp |-> hp],
                                   !.score = @ + 10],
                         spawn[j])
                  ELSE [s EXCEPT !.bricksRef[j].hp = hp]
    ELSE s

RECURSIVE BallLoop(_, _, _, _)
BallLoop(s, i, ev, spawn) ==
    IF i < 1 THEN s
    ELSE BallLoop(BallBody(s, i, ev, spawn), i - 1, ev, spawn)

stepGame(s, ev, spawn) ==
    IF ~anyLaunched(s.ballsRef) THEN s
    ELSE LET s1 == BallLoop(s, Len(s.ballsRef), ev, spawn)
         IN  IF noneAlive(s1.bricksRef)
             THEN commitLeaderboardIfNeeded(
                    resetBallsToPaddle(setGameState(s1, "win")), "win")
             ELSE s1

\* stepDrops: fate[k] is what the frame finds for drop k: "fall", "caught" (it
\* overlaps the paddle) or "exit" (below GAME_H + 30).  A drop spawned by this
\* frame's stepGame starts at its brick's centre, above the paddle: it falls.
FateOf(fate, k) == IF k \in DOMAIN fate THEN fate[k] ELSE "fall"

RECURSIVE DropLoop(_, _, _, _)
DropLoop(s, drops, k, fate) ==
    IF k > Len(drops) THEN s
    ELSE DropLoop(IF FateOf(fate, k) = "caught" THEN applyPowerUp(s, drops[k]) ELSE s,
                  drops, k + 1, fate)

stepDrops(s, fate) ==
    LET drops == s.dropsRef
        s1 == DropLoop(s, drops, 1, fate)
    IN  [s1 EXCEPT !.dropsRef = SelectSeq(
            [k \in 1..Len(drops) |-> IF FateOf(fate, k) = "fall" THEN drops[k] ELSE "dead"],
            LAMBDA d : d # "dead")]

\* What a render commits: the ref-sync effects and the gameover commit effect.
RenderCommit(s) ==
    LET prev == s.lastCommittedStateRef
        s1 == [s EXCEPT !.gameStateRef = s.gameState,
                        !.scoreRef = s.score,
                        !.levelRef = s.level,
                        !.lastCommittedStateRef = s.gameState,
                        !.renderPending = FALSE]
    IN  IF s1.practiceMode THEN s1
        ELSE IF s1.gameState = "gameover" /\ prev # "gameover"
             THEN commitLeaderboardIfNeeded(s1, "gameover")
        ELSE s1

DailyInit ==
    /\ gameState = "idle"
    /\ gameStateRef = "idle"
    /\ renderPending = FALSE
    /\ practiceMode = FALSE
    /\ practiceInfiniteLives = FALSE
    /\ score = 0
    /\ scoreRef = 0
    /\ lives = 3
    /\ level = 1
    /\ levelRef = 1
    /\ ballsRef = << [launched |-> FALSE] >>
    /\ bricksRef = LevelBricks(1)
    /\ dropsRef = << >>
    /\ slowUntilRef = 0
    /\ widenUntilRef = 0
    /\ lastCommitKeyRef = ""
    /\ lastCommittedStateRef = "idle"
    /\ lbSaves = 0
    /\ remoteSubmits = 0
    /\ occurrences = 0
    /\ commitCalls = 0
    /\ lastOp = "init"

Op(s, name) == [s EXCEPT !.lastOp = name]

\* loop(t): stepGame when the closure's gameState is "running", then stepDrops.
BallEvents == (-1)..NumBricks
SpawnPicks == {"none"} \cup PowerUpTypes
DropFates == {"fall", "caught", "exit"}

\* The findings a frame can have.  An unlaunched ball is skipped by the loop and
\* a dead brick is skipped by the brick scan, so their findings are fixed to
\* "nothing"; launched balls are interchangeable (they differ in position
\* only), so the findings are listed once per multiset, in index order.
BallFindings ==
    { ev \in [1..Len(ballsRef) -> BallEvents] :
        /\ \A i \in 1..Len(ballsRef) :
              /\ ~ballsRef[i].launched => ev[i] = 0
              /\ ev[i] >= 1 => bricksRef[ev[i]].alive
        /\ \A i, k \in 1..Len(ballsRef) :
              (i < k /\ ballsRef[i].launched /\ ballsRef[k].launched) => ev[i] <= ev[k] }

\* spawnDropMaybe draws only for a brick that this frame destroys.
SpawnFindings(ev) ==
    { spawn \in [1..NumBricks -> SpawnPicks] :
        \A j \in 1..NumBricks :
            spawn[j] # "none" =>
                /\ gameStateRef = "running"
                /\ Cardinality({i \in 1..Len(ballsRef) : ev[i] = j}) >= bricksRef[j].hp }

Frame ==
    \E ev \in BallFindings :
    \E spawn \in SpawnFindings(ev) :
    \E fate \in [1..Len(dropsRef) -> DropFates] :
        LET s1 == IF gameStateRef = "running" THEN stepGame(D, ev, spawn) ELSE D
            s2 == stepDrops(s1, fate)
            dirty == \/ s2.gameState # gameState
                     \/ s2.score # score
                     \/ s2.lives # lives
        IN  DailySet(Op([s2 EXCEPT !.renderPending = renderPending \/ dirty],
                        "frame"))

Render ==
    /\ renderPending
    /\ DailySet(Op(RenderCommit(D), "render"))

\* The gameover commit effect runs again when one of its dependencies changes
\* (commitLeaderboardIfNeeded is rebuilt when userAddr changes).
DepsChange ==
    /\ ~renderPending
    /\ DailySet(Op(RenderCommit(D), "deps"))

\* onDown of the canvas.
PointerDown ==
    /\ ~renderPending
    /\ LET gs == gameStateRef
           s1 == IF gs = "idle" THEN launchBalls(D)
                 ELSE IF gs = "paused" THEN setGameState(D, "running")
                 ELSE IF gs = "win" THEN nextLevelFn(D)
                 ELSE IF gs = "gameover" THEN resetGame(D, 1)
                 ELSE D
       IN  /\ gs = "win" => level < MaxLevelD
           /\ gs = "idle" => occurrences < MaxOccur
           /\ DailySet(Op(RenderCommit(s1), IF gs = "idle" THEN "launch" ELSE "pointer"))

\* The Start / Pause / Resume / Restart / Next Level button.
PrimaryButton ==
    /\ ~renderPending
    /\ LET gs == gameState
           s1 == IF gs = "idle" THEN launchBalls(D)
                 ELSE IF gs = "running" THEN setGameState(D, "paused")
                 ELSE IF gs = "paused" THEN setGameState(D, "running")
                 ELSE IF gs = "gameover" THEN resetGame(D, 1)
                 ELSE nextLevelFn(D)
       IN  /\ gs = "win" => level < MaxLevelD
           /\ gs = "idle" => occurrences < MaxOccur
           /\ DailySet(Op(RenderCommit(s1), IF gs = "idle" THEN "launch" ELSE "button"))

ResetButton ==
    /\ ~renderPending
    /\ DailySet(Op(RenderCommit(resetGame(D, 1)), "reset"))

PracticeToggle ==
    /\ ~renderPending
    /\ LET s1 == [D EXCEPT !.practiceMode = ~@, !.practiceInfiniteLives = FALSE,
                           !.score = 0, !.lives = 3, !.level = 1]
           s2 == resetRound(makeLevelBricks(s1, 1))
           s3 == [setGameState(s2, "idle") EXCEPT !.lastCommitKeyRef = ""]
       IN  DailySet(Op(RenderCommit(s3), "practice"))

InfiniteLivesToggle ==
    /\ ~renderPending
    /\ practiceMode
    /\ DailySet(Op(RenderCommit([D EXCEPT !.practiceInfiniteLives = ~@]), "lives"))

DailyNext ==
    \/ Frame
    \/ Render
    \/ DepsChange
    \/ PointerDown
    \/ PrimaryButton
    \/ ResetButton
    \/ PracticeToggle
    \/ InfiniteLivesToggle

(***************************************************************************)
(* Phase-2 app: helpers, StorageStore, DefaultRewards.                     *)
(***************************************************************************)
Max(a, b) == IF a >= b THEN a ELSE b
Min(a, b) == IF a <= b THEN a ELSE b

\* clamp(n, a, b) = Math.max(a, Math.min(b, n))
clamp(n, a, b) == Max(a, Min(b, n))

Days == 1..MaxDay

\* A value of localStorage[STORAGE_ATTEMPTS] after safeJsonParse(..., {}):
\* present is FALSE for a missing item or malformed JSON (the fallback {});
\* dateKey is 0 when the object has no dateKey that is a day's key;
\* leftIsNumber is typeof raw.left === "number".
StoredRecord(dk, left) ==
    [present |-> TRUE, dateKey |-> dk, leftIsNumber |-> TRUE, left |-> left]

NoRecord == [present |-> FALSE, dateKey |-> 0, leftIsNumber |-> FALSE, left |-> 0]

loadAttempts_NoDateCheck(t, raw) ==
    IF raw.present /\ raw.leftIsNumber
    THEN [ret |-> [dateKey |-> t, left |-> clamp(raw.left, 0, DAILY_ATTEMPTS + 1)],
          stored |-> raw]
    ELSE [ret |-> [dateKey |-> t, left |-> DAILY_ATTEMPTS],
          stored |-> StoredRecord(t, DAILY_ATTEMPTS)]

\* StorageStore.loadAttempts with today = t: what it returns and what storage
\* holds afterwards.
loadAttempts(t, raw) ==
    IF raw.present /\ raw.dateKey = t /\ raw.leftIsNumber
    THEN [ret |-> [dateKey |-> t, left |-> clamp(raw.left, 0, DAILY_ATTEMPTS + 1)],
          stored |-> raw]
    ELSE [ret |-> [dateKey |-> t, left |-> DAILY_ATTEMPTS],
          stored |-> StoredRecord(t, DAILY_ATTEMPTS)]

\* The Phase-2 app as one record.  events, movedWith, burned, caught and reverted
\* are
\* what the handler that starts from this record has emitted and done so far.
A == [ today |-> today, mounted |-> mounted, storedAttempts |-> storedAttempts,
       storedProfile |-> storedProfile, attemptsLeft |-> attemptsLeft,
       dateKey |-> dateKey, appPracticeMode |-> appPracticeMode,
       appLevel |-> appLevel, runConsumedAttemptRef |-> runConsumedAttemptRef,
       cbPracticeMode |-> cbPracticeMode, engineState |-> engineState,
       engineLevel |-> engineLevel, engineScore |-> engineScore,
       engineBricks |-> engineBricks, engineAlive |-> engineAlive,
       bricksRemaining |-> bricksRemaining,
       combo |-> combo, cw |-> cw, paddleW |-> paddleW, slowMul |-> slowMul,
       fireball |-> fireball, magnet |-> magnet, stuckToPaddle |-> stuckToPaddle,
       effectUntil |-> effectUntil, powerUps |-> powerUps, now |-> now,
       events |-> << >>, movedWith |-> 0, burned |-> FALSE, caught |-> << >>,
       reverted |-> {},
       weeklySubmits |-> weeklySubmits,
       runDecrements |-> runDecrements, runMode |-> runMode,
       runs |-> runs, lastHandler |-> lastHandler ]

AppSet(a) ==
    /\ today' = a.today
    /\ mounted' = a.mounted
    /\ storedAttempts' = a.storedAttempts
    /\ storedProfile' = a.storedProfile
    /\ attemptsLeft' = a.attemptsLeft
    /\ dateKey' = a.dateKey
    /\ appPracticeMode' = a.appPracticeMode
    /\ appLevel' = a.appLevel
    /\ runConsumedAttemptRef' = a.runConsumedAttemptRef
    /\ cbPracticeMode' = a.cbPracticeMode
    /\ engineState' = a.engineState
    /\ engineLevel' = a.engineLevel
    /\ engineScore' = a.engineScore
    /\ engineBricks' = a.engineBricks
    /\ engineAlive' = a.engineAlive
    /\ bricksRemaining' = a.bricksRemaining
    /\ combo' = a.combo
    /\ cw' = a.cw
    /\ paddleW' = a.paddleW
    /\ slowMul' = a.slowMul
    /\ fireball' = a.fireball
    /\ magnet' = a.magnet
    /\ stuckToPaddle' = a.stuckToPaddle
    /\ effectUntil' = a.effectUntil
    /\ powerUps' = a.powerUps
    /\ now' = a.now
    /\ events' = a.events
    /\ movedWith' = a.movedWith
    /\ burned' = a.burned
    /\ caught' = a.caught
    /\ reverted' = a.reverted
    /\ weeklySubmits' = a.weeklySubmits
    /\ runDecrements' = a.runDecrements
    /\ runMode' = a.runMode
    /\ runs' = a.runs
    /\ lastHandler' = a.lastHandler
    /\ UNCHANGED << dailyVars, loadVars, genVars, streakVars, lateVars >>

saveAttempts(a, dk, left) ==
    [a EXCEPT !.storedAttempts = StoredRecord(dk, left)]

\* DefaultRewards.applyDailyReward(profile, attemptsLeft, practice): the
\* profile's lastPlayDateKey (0 for "") and streakDays, the attempts it
\* returns, and storage after its setItem.  `gave` is the "+1 life" branch.
applyDailyReward(a, profile, att, practice) ==
    IF profile.lastPlayDateKey = a.today
    THEN [a |-> a, profile |-> profile, attemptsLeft |-> att, gave |-> FALSE]
    ELSE LET prev == profile.lastPlayDateKey
             newStreak == IF prev # 0 /\ prev = a.today - 1
                          THEN profile.streakDays + 1 ELSE 1
             giveLife == newStreak % 3 = 0
             next == [lastPlayDateKey |-> a.today, streakDays |-> newStreak]
             nextAttempts == clamp(att + 1, 0, DAILY_ATTEMPTS + 1)
         IN  IF giveLife /\ ~practice
             THEN [a |-> saveAttempts(a, a.today, nextAttempts), profile |-> next,
                   attemptsLeft |-> nextAttempts, gave |-> TRUE]
             ELSE [a |-> a, profile |-> next, attemptsLeft |-> att, gave |-> FALSE]

(***************************************************************************)
(* Phase-2 app: class GameEngine.  The world is the bricks (their hp; a    *)
(* brick is alive while its hp is positive), the count bricksRemaining,    *)
(* the combo counter, the paddle's width, the four timed effects and the   *)
(* number of falling power-ups; where the ball, the paddle and the         *)
(* power-ups are is an input of step.  Lengths are in px, paddleW in       *)
(* 1/1000 px and slowMul in 1/100 so that the products stay integers.      *)
(***************************************************************************)
EffectTypes == {"wide", "slow", "fire", "magnet"}

NoEffects == [wide |-> 0, slow |-> 0, fire |-> 0, magnet |-> 0]

Emit(a, e) == [a EXCEPT !.events = Append(@, e)]

isBossLevel(lv) == lv > 0 /\ lv % BOSS_EVERY = 0

\* makeBricks(levelNum): one boss brick on a boss level; else a grid that has
\* one more column from level 3 on (NumBricksE + 1 bricks for NumBricksE), in
\* which hp is 2 for some bricks from level 3 on and 1 for the others (the
\* rule (r + c) % 4 === 0 is stood for by the odd indices).
makeBricks(levelNum) ==
    IF isBossLevel(levelNum)
    THEN << 10 + (levelNum * 12) \div 10 >>
    ELSE [i \in 1..(NumBricksE + (IF levelNum >= 3 THEN 1 ELSE 0)) |->
             IF levelNum >= 3 /\ i % 2 = 1 THEN 2 ELSE 1]

\* The paddleW of hardResetWorld:
\* Math.max(86, Math.floor(cw * (0.23 - Math.min(0.06, (levelNum - 1) * 0.01)))).
hardResetPaddleW(w, levelNum) ==
    1000 * Max(86, (w * (23 - Min(6, levelNum - 1))) \div 100)

Engine_bindCanvas(a, w) == [a EXCEPT !.cw = w]

Engine_hardResetWorld(a, levelNum) ==
    [a EXCEPT !.slowMul = 100,
              !.effectUntil = NoEffects,
              !.fireball = FALSE,
              !.magnet = FALSE,
              !.stuckToPaddle = FALSE,
              !.paddleW = hardResetPaddleW(a.cw, levelNum),
              !.combo = 0,
              !.powerUps = 0,
              !.engineBricks = makeBricks(levelNum),
              !.engineAlive = [i \in 1..Len(makeBricks(levelNum)) |-> TRUE],
              !.bricksRemaining = Len(makeBricks(levelNum))]

Engine_setLevel(a, lv) ==
    LET l == clamp(lv, 1, MAX_LEVEL)
    IN  Engine_hardResetWorld([a EXCEPT !.engineLevel = l], l)

\* setState(state): this.state = state; onEvent({type: "state"}) sets the
\* component's gameState to the same value.
Engine_setState(a, st) == Emit([a EXCEPT !.engineState = st], "state")

Engine_start(a) ==
    LET a1 == IF a.engineState = "idle"
              THEN Engine_hardResetWorld([a EXCEPT !.engineScore = 0], a.engineLevel)
              ELSE a
    IN  Engine_setState(a1, "running")

Engine_togglePause_Resume(a) ==
    IF a.engineState = "running" THEN Engine_setState(a, "paused")
    ELSE Engine_setState(a, "running")

Engine_togglePause(a) ==
    IF a.engineState = "running" THEN Engine_setState(a, "paused")
    ELSE IF a.engineState = "paused" THEN Engine_setState(a, "running")
    ELSE a

Engine_resetToIdle(a) ==
    Engine_setState(Engine_hardResetWorld([a EXCEPT !.engineScore = 0], a.engineLevel),
                    "idle")

\* movePaddleTo(x) writes paddleX only.
Engine_movePaddleTo(a) == a

\* applyPowerUp(type); now is performance.now().
Engine_applyPowerUp(a, type) ==
    LET a1 == IF type = "wide"
              THEN [a EXCEPT !.effectUntil.wide = a.now + EFFECT_WIDE_MS,
                             !.paddleW = Min(a.cw * 420, (a.paddleW * 135) \div 100)]
              ELSE IF type = "slow"
              THEN [a EXCEPT !.effectUntil.slow = a.now + EFFECT_SLOW_MS,
                             !.slowMul = 72]
              ELSE IF type = "fire"
              THEN [a EXCEPT !.effectUntil.fire = a.now + EFFECT_FIRE_MS,
                             !.fireball = TRUE]
              ELSE [a EXCEPT !.effectUntil.magnet = a.now + EFFECT_MAGNET_MS,
                             !.magnet = TRUE]
    IN  Emit(a1, "toast")

\* effectUntil[type] is set and lies before performance.now().
Expired(a, type) == a.effectUntil[type] # 0 /\ a.now > a.effectUntil[type]

updateEffectsTimers(a) ==
    LET a1 == IF Expired(a, "wide")
              THEN [a EXCEPT !.effectUntil.wide = 0,
                             !.paddleW = 1000 * Max(86, (a.cw * 23) \div 100),
                             !.reverted = @ \cup {"wide"}]
              ELSE a
        a2 == IF Expired(a1, "slow")
              THEN [a1 EXCEPT !.effectUntil.slow = 0, !.slowMul = 100,
                              !.reverted = @ \cup {"slow"}]
              ELSE a1
        a3 == IF Expired(a2, "fire")
              THEN [a2 EXCEPT !.effectUntil.fire = 0, !.fireball = FALSE,
                              !.reverted = @ \cup {"fire"}]
              ELSE a2
    IN  IF Expired(a3, "magnet")
        THEN [a3 EXCEPT !.effectUntil.magnet = 0, !.magnet = FALSE,
                        !.stuckToPaddle = FALSE,
                        !.reverted = @ \cup {"magnet"}]
        ELSE a3

Engine_releaseBallFromMagnet(a) ==
    IF ~a.stuckToPaddle THEN a ELSE [a EXCEPT !.stuckToPaddle = FALSE]

(***************************************************************************)
(* Phase-2 app: the component's callbacks.  A handler runs against the     *)
(* render that is on screen: its closures (canStart, startGame, level)     *)
(* read that render's state, and the updates it queues are committed       *)
(* before the next handler runs.  The one closure that is never rebuilt is *)
(* the onEvent given to new GameEngine: it keeps the practiceMode of the   *)
(* render that created the engine (cbPracticeMode).                        *)
(***************************************************************************)
\* What a switch of the practice mode makes of the run's mode.
SwitchedMode(m) == IF m = "none" THEN "none" ELSE "mixed"

lockedOut_Never(a) == FALSE

lockedOut(a) == ~a.appPracticeMode /\ a.attemptsLeft <= 0

canStart(a) == a.appPracticeMode \/ a.attemptsLeft > 0

consumeAttemptOnce_NoFloor(a, pm) ==
    IF pm THEN a
    ELSE IF a.runConsumedAttemptRef THEN a
    ELSE LET next == a.attemptsLeft - 1
         IN  [saveAttempts(a, a.today, next) EXCEPT
                 !.runConsumedAttemptRef = TRUE,
                 !.attemptsLeft = next,
                 !.runDecrements = @ + (a.attemptsLeft - next)]

\* consumeAttemptOnce as the closure that read practiceMode = pm.
consumeAttemptOnce(a, pm) ==
    IF pm THEN a
    ELSE IF a.runConsumedAttemptRef THEN a
    ELSE LET next == Max(0, a.attemptsLeft - 1)
         IN  [saveAttempts(a, a.today, next) EXCEPT
                 !.runConsumedAttemptRef = TRUE,
                 !.attemptsLeft = next,
                 !.runDecrements = @ + (a.attemptsLeft - next)]

startGame(a) ==
    IF ~canStart(a) THEN a
    ELSE LET a1 == [a EXCEPT !.runConsumedAttemptRef = FALSE,
                             !.runDecrements = 0,
                             !.runMode = IF a.appPracticeMode THEN "practice" ELSE "daily",
                             !.runs = @ + 1]
         IN  Engine_start(Engine_setLevel(a1, a1.appLevel))

togglePause(a) == Engine_togglePause(a)

resetToIdle(a, resetLevelTo1) ==
    LET a1 == [a EXCEPT !.runConsumedAttemptRef = FALSE]
    IN  IF resetLevelTo1
        THEN Engine_resetToIdle(Engine_setLevel([a1 EXCEPT !.appLevel = 1], 1))
        ELSE Engine_resetToIdle(a1)

nextLevel(a) ==
    LET nl == Min(MAX_LEVEL, a.appLevel + 1)
        a1 == [a EXCEPT !.appLevel = nl,
                        !.runConsumedAttemptRef = FALSE,
                        !.runs = @ + 1]
    IN  Engine_start(Engine_setLevel(a1, nl))

\* The onEvent closure given to new GameEngine: its "win" and "lose" branches.
onEventWin(a) ==
    [consumeAttemptOnce(a, a.cbPracticeMode) EXCEPT !.weeklySubmits = @ + 1]

onEventLose(a) == consumeAttemptOnce(a, a.cbPracticeMode)

\* The power-up loop of step: the caught ones are applied in the order the
\* loop meets them, the ones below the bottom edge are removed.
RECURSIVE applyCaught(_, _)
applyCaught(a, types) ==
    IF types = << >> THEN a
    ELSE applyCaught(Engine_applyPowerUp(a, Head(types)), Tail(types))

stepPowerUps(a, types, fell) ==
    [applyCaught(a, types) EXCEPT !.powerUps = @ - Len(types) - fell,
                                  !.caught = types]

comboBonus_Penalty(c) == 0 - 12 * c

\* Math.min(30, (this.combo - 1) * 3)
comboBonus(c) == Min(30, (c - 1) * 3)

aliveAfter_Kept(alive, hp) == alive

\* if (br.hp <= 0) { br.alive = false; ... }
aliveAfter(alive, hp) == IF hp <= 0 THEN FALSE ELSE alive

remainingAfter_Zero(n, isBoss) == 0

\* if (br.isBoss) this.bricksRemaining = 0; else this.bricksRemaining -= 1;
remainingAfter(n, isBoss) == IF isBoss THEN 0 ELSE n - 1

\* The body of the brick loop for the first alive brick i the ball overlaps;
\* quick is now - lastHitAt < 1200, drop is what maybeDropPowerUp's
\* Math.random() decides.
stepBrick(a, i, quick, drop) ==
    LET c == IF quick THEN a.combo + 1 ELSE 1
        hp == a.engineBricks[i] - 1
        isBoss == isBossLevel(a.engineLevel)
        gained == IF hp <= 0
                  THEN (IF isBoss THEN 120 ELSE 10) + comboBonus(c)
                  ELSE IF isBoss THEN 8 ELSE 3
        a1 == [a EXCEPT !.burned = a.fireball,
                        !.combo = c,
                        !.engineBricks[i] = hp,
                        !.engineAlive[i] = aliveAfter(@, hp),
                        !.bricksRemaining = IF hp <= 0
                                            THEN remainingAfter(@, isBoss)
                                            ELSE @,
                        !.engineScore = @ + gained]
        a2 == Emit(a1, "score")
        a3 == IF hp <= 0 /\ ~isBoss /\ drop
              THEN [a2 EXCEPT !.powerUps = @ + 1]
              ELSE a2
    IN  IF a3.bricksRemaining <= 0
        THEN onEventWin(Emit(Engine_setState(a3, "win"), "win"))
        ELSE a3

\* step from "paddle keyboard" on.  f is what the frame finds: f.ball is
\* "paddle" (hitPaddle), "brick" (the first alive brick the ball overlaps is
\* f.brick), "below" (the ball is under the bottom edge) or "none"; f.caught
\* are the types of the power-ups the paddle catches and f.fell how many leave
\* by the bottom edge.
stepWorld(a, f) ==
    LET a2 == [a EXCEPT !.movedWith = IF a.magnet /\ a.stuckToPaddle
                                      THEN 0 ELSE a.slowMul]
        a3 == IF f.ball = "paddle" /\ a2.magnet
              THEN [a2 EXCEPT !.stuckToPaddle = TRUE]
              ELSE a2
        a4 == stepPowerUps(a3, f.caught, f.fell)
    IN  IF f.ball = "brick" THEN stepBrick(a4, f.brick, f.quick, f.drop)
        ELSE IF f.ball = "below"
        THEN onEventLose(Emit(Engine_setState(a4, "gameover"), "lose"))
        ELSE a4

stepRunning_TimersLast(a, f) == updateEffectsTimers(stepWorld(a, f))

\* step after its first line: this.updateEffectsTimers(), then the rest.
stepRunning(a, f) == stepWorld(updateEffectsTimers(a), f)

Engine_step_Unguarded(a, f) == stepRunning(a, f)

\* GameEngine.step(ts) with performance.now() = a.now.
Engine_step(a, f) ==
    IF a.engineState # "running" THEN a ELSE stepRunning(a, f)
(***************************************************************************)
(* Phase-2 app: initial state and actions.                                 *)
(***************************************************************************)
\* The component's useState initial values and no engine yet (its fields as the
\* class declares them), on day t with the given storage.
AppStart(t, stored, prof) ==
    /\ today = t
    /\ mounted = FALSE
    /\ storedAttempts = stored
    /\ storedProfile = prof
    /\ attemptsLeft = DAILY_ATTEMPTS
    /\ dateKey = 0
    /\ appPracticeMode = FALSE
    /\ appLevel = 1
    /\ runConsumedAttemptRef = FALSE
    /\ cbPracticeMode = FALSE
    /\ engineState = "idle"
    /\ engineLevel = 1
    /\ engineScore = 0
    /\ engineBricks = << >>
    /\ engineAlive = << >>
    /\ bricksRemaining = 0
    /\ combo = 0
    /\ cw = 420
    /\ paddleW = 96000
    /\ slowMul = 100
    /\ fireball = FALSE
    /\ magnet = FALSE
    /\ stuckToPaddle = FALSE
    /\ effectUntil = NoEffects
    /\ powerUps = 0
    /\ now = 0
    /\ events = << >>
    /\ movedWith = 0
    /\ burned = FALSE
    /\ caught = << >>
    /\ reverted = {}
    /\ weeklySubmits = 0
    /\ runDecrements = 0
    /\ runMode = "none"
    /\ runs = 0
    /\ lastHandler = "init"

\* loadProfile's record of a player who never played: lastPlayDateKey "".
NewProfile == [lastPlayDateKey |-> 0, streakDays |-> 0]

\* A first visit: nothing stored.
AppIdle == AppStart(1, NoRecord, NewProfile)

\* The page is opened on day 1: a first visit, or a visit after an earlier one
\* of the same day, which left the day's record with 0..DAILY_ATTEMPTS attempts
\* and the profile its INIT effect saved.
AppInit ==
    \/ AppStart(1, NoRecord, NewProfile)
    \/ \E k \in 0..DAILY_ATTEMPTS :
          AppStart(1, StoredRecord(1, k), [lastPlayDateKey |-> 1, streakDays |-> 1])

LoadIdle ==
    /\ loadRaw = NoRecord
    /\ loadResult = [dateKey |-> 0, left |-> 0]
    /\ loadDone = FALSE

H(a, name) == [a EXCEPT !.lastHandler = name]

RunsLeft == runs < MaxRuns

Startable == engineState \in {"idle", "gameover", "win"}

\* The width resize gives the canvas: Math.max(320, Math.min(600, maxW)) for a
\* parent of this width.
CanvasWidth == 420

\* The effects of the first commit: INIT, ENGINE create (the closures read this
\* render's practiceMode), resize (bindCanvas, hardResetWorld of the idle engine).
Mount ==
    /\ ~mounted
    /\ LET att == loadAttempts(today, storedAttempts)
           a1 == [A EXCEPT !.mounted = TRUE,
                           !.dateKey = today,
                           !.storedAttempts = att.stored,
                           !.attemptsLeft = att.ret.left]
           daily == applyDailyReward(a1, storedProfile, att.ret.left, FALSE)
           a2 == [daily.a EXCEPT !.storedProfile = daily.profile,
                                 !.attemptsLeft = daily.attemptsLeft,
                                 !.cbPracticeMode = appPracticeMode]
           a3 == Engine_hardResetWorld(Engine_bindCanvas(a2, CanvasWidth), a2.engineLevel)
       IN  AppSet(H(a3, IF daily.gave THEN "reward" ELSE "mount"))

\* The page is loaded again: a new component and, at its mount, a new engine;
\* localStorage stays.
Reload ==
    /\ mounted
    /\ AppSet(H([A EXCEPT !.mounted = FALSE,
                          !.attemptsLeft = DAILY_ATTEMPTS,
                          !.dateKey = 0,
                          !.appPracticeMode = FALSE,
                          !.appLevel = 1,
                          !.runConsumedAttemptRef = FALSE,
                          !.cbPracticeMode = FALSE,
                          !.engineState = "idle",
                          !.engineLevel = 1,
                          !.engineScore = 0,
                          !.engineBricks = << >>,
                          !.engineAlive = << >>,
                          !.bricksRemaining = 0,
                          !.combo = 0,
                          !.cw = 420,
                          !.paddleW = 96000,
                          !.slowMul = 100,
                          !.fireball = FALSE,
                          !.magnet = FALSE,
                          !.stuckToPaddle = FALSE,
                          !.effectUntil = NoEffects,
                          !.powerUps = 0,
                          !.runDecrements = 0,
                          !.runMode = "none"], "reload"))

\* 00:00 Europe/Istanbul passes.
Midnight ==
    /\ today < MaxDay
    /\ AppSet(H([A EXCEPT !.today = @ + 1], "midnight"))

\* The window.setInterval callback of the INIT effect.
IntervalTick ==
    /\ mounted
    /\ LET att2 == loadAttempts(today, storedAttempts)
       IN  AppSet(H([A EXCEPT !.dateKey = today,
                              !.storedAttempts = att2.stored,
                              !.attemptsLeft = att2.ret.left], "interval"))

\* What a frame can find of the ball.
\* if (!br.alive) continue;
AliveBricks == {j \in 1..Len(engineBricks) : engineAlive[j]}

Finding(ball, brick, quick, drop, types, fell) ==
    [ball |-> ball, brick |-> brick, quick |-> quick, drop |-> drop,
     caught |-> types, fell |-> fell]

\* The frames in which the ball ends the rally: it overlaps an alive brick or
\* it is below the bottom edge; no power-up drops.
HitFindings ==
    {Finding("below", 0, FALSE, FALSE, << >>, 0)} \cup
    {Finding("brick", j, q, FALSE, << >>, 0) : j \in AliveBricks, q \in BOOLEAN}

\* tick of the loop effect: engine.step(ts).
EngineTick ==
    /\ mounted
    /\ engineState = "running"
    /\ \E f \in HitFindings : AppSet(H(Engine_step(A, f), "step"))

\* onKeyDown with Space or Enter.
KeyDown ==
    /\ mounted
    /\ (Startable /\ canStart(A)) => RunsLeft
    /\ LET a1 == IF engineState = "running" THEN togglePause(A)
                 ELSE IF engineState = "paused" THEN togglePause(A)
                 ELSE IF Startable /\ canStart(A) THEN startGame(A)
                 ELSE A
       IN  AppSet(H(a1, "key"))

\* onPointerDown of the canvas.
PointerDownCanvas ==
    /\ mounted
    /\ (Startable /\ canStart(A)) => RunsLeft
    /\ LET a1 == IF engineState # "running" /\ engineState # "paused" /\ canStart(A)
                 THEN startGame(A) ELSE A
       IN  AppSet(H(a1, "pointer"))

onPrimaryCTA(a) ==
    IF lockedOut(a) THEN [a EXCEPT !.appPracticeMode = TRUE, !.runMode = SwitchedMode(@)]
    ELSE IF a.engineState = "running" THEN togglePause(a)
    ELSE IF a.engineState = "paused" THEN togglePause(a)
    ELSE startGame(a)

PrimaryCTA ==
    /\ mounted
    /\ (Startable /\ canStart(A)) => RunsLeft
    /\ AppSet(H(onPrimaryCTA(A), "cta"))

\* The Practice switch: setPracticeMode(v => !v).
TogglePractice ==
    /\ mounted
    /\ AppSet(H([A EXCEPT !.appPracticeMode = ~@, !.runMode = SwitchedMode(@)], "practice"))

\* The Reset button of the top bar.
TopReset ==
    /\ mounted
    /\ AppSet(H(resetToIdle(A, FALSE), "reset"))

\* The overlay is rendered when gameState !== "running" || lockedOut; which
\* buttons it holds is decided by lockedOut first, then by gameState.
OverlayShown == engineState # "running" \/ lockedOut(A)

OverlaySwitchPractice ==
    /\ mounted /\ OverlayShown
    /\ lockedOut(A)
    /\ AppSet(H([A EXCEPT !.appPracticeMode = TRUE, !.runMode = SwitchedMode(@)], "switch"))

OverlayResetLevel ==
    /\ mounted /\ OverlayShown
    /\ lockedOut(A)
    /\ AppSet(H(resetToIdle(A, TRUE), "resetLevel"))

OverlayNextLevel ==
    /\ mounted /\ OverlayShown
    /\ ~lockedOut(A)
    /\ engineState = "win"
    /\ appLevel < MaxLevelA
    /\ RunsLeft
    /\ AppSet(H(nextLevel(A), "next"))

OverlayReplay ==
    /\ mounted /\ OverlayShown
    /\ ~lockedOut(A)
    /\ engineState = "win"
    /\ RunsLeft
    /\ AppSet(H(startGame(A), "replay"))

\* Try again is disabled while !canStart().
OverlayTryAgain ==
    /\ mounted /\ OverlayShown
    /\ ~lockedOut(A)
    /\ engineState = "gameover"
    /\ canStart(A)
    /\ RunsLeft
    /\ AppSet(H(startGame(A), "tryAgain"))

OverlayBack ==
    /\ mounted /\ OverlayShown
    /\ ~lockedOut(A)
    /\ engineState = "gameover"
    /\ AppSet(H(resetToIdle(A, FALSE), "back"))

OverlayResume ==
    /\ mounted /\ OverlayShown
    /\ ~lockedOut(A)
    /\ engineState = "paused"
    /\ AppSet(H(togglePause(A), "resume"))

\* Press Start is disabled while !canStart().
OverlayPressStart ==
    /\ mounted /\ OverlayShown
    /\ ~lockedOut(A)
    /\ engineState = "idle"
    /\ canStart(A)
    /\ RunsLeft
    /\ AppSet(H(startGame(A), "pressStart"))

AppNext ==
    \/ Mount
    \/ Reload
    \/ Midnight
    \/ IntervalTick
    \/ EngineTick
    \/ KeyDown
    \/ PointerDownCanvas
    \/ PrimaryCTA
    \/ TogglePractice
    \/ TopReset
    \/ OverlaySwitchPractice
    \/ OverlayResetLevel
    \/ OverlayNextLevel
    \/ OverlayReplay
    \/ OverlayTryAgain
    \/ OverlayBack
    \/ OverlayResume
    \/ OverlayPressStart

(***************************************************************************)
(* StorageStore.loadAttempts as a function of today and the stored value.  *)
(***************************************************************************)
\* The stored values: a missing item or malformed JSON, or an object whose
\* dateKey is a day's key or not (0) and whose left is a number or not.
RawValues ==
    {NoRecord} \cup
    [present : {TRUE}, dateKey : 0..MaxDay, leftIsNumber : BOOLEAN,
     left : (-1)..MaxRawLeft]

LoadInit ==
    \E t \in Days :
    \E raw \in RawValues :
        /\ AppStart(t, raw, NewProfile)
        /\ loadRaw = raw
        /\ loadResult = [dateKey |-> 0, left |-> 0]
        /\ loadDone = FALSE

LoadAttemptsCall ==
    /\ ~loadDone
    /\ LET r == loadAttempts(today, storedAttempts)
       IN  /\ loadResult' = r.ret
           /\ storedAttempts' = r.stored
           /\ loadDone' = TRUE
    /\ UNCHANGED << loadRaw, dailyVars, genVars, streakVars, lateVars, today, mounted,
                    storedProfile, attemptsLeft, dateKey, appPracticeMode, appLevel, runConsumedAttemptRef,
                    cbPracticeMode, engineState, engineLevel, engineScore,
                    engineBricks, engineAlive, bricksRemaining, combo, cw, paddleW, slowMul,
                    fireball, magnet, stuckToPaddle, effectUntil, powerUps, now,
                    events, movedWith, burned, caught, reverted, weeklySubmits,
                    runDecrements, runMode, runs, lastHandler >>

LoadNext == LoadAttemptsCall

(***************************************************************************)
(* class GameEngine driven call by call: the calls the component makes on  *)
(* its engine, with every level the player can have reached, every frame   *)
(* finding, power-ups and the clock.                                       *)
(***************************************************************************)
LevelInputs == {1, 3, 5}

\* The sequences of at most n power-up types.
CaughtSeqs(n) == UNION {[1..k -> EffectTypes] : k \in 0..n}

\* What a frame of the running engine can find.  A ball held by the magnet
\* sits on the paddle and meets nothing; a hit is a quick one only below
\* MaxCombo; a power-up drops only while fewer than MaxPowerUps are falling.
StepFindings ==
    LET held == updateEffectsTimers(A).magnet /\ updateEffectsTimers(A).stuckToPaddle
        balls == IF held THEN {<<"none", 0>>}
                 ELSE {<<"none", 0>>, <<"paddle", 0>>, <<"below", 0>>}
                      \cup {<<"brick", j>> : j \in AliveBricks}
    IN  {Finding(b[1], b[2], q, d, types, fell) :
            b \in balls, q \in BOOLEAN, d \in BOOLEAN,
            types \in CaughtSeqs(powerUps), fell \in 0..powerUps}

FindingPossible(f) ==
    /\ Len(f.caught) + f.fell <= powerUps
    /\ f.quick => f.ball = "brick" /\ combo < MaxCombo
    /\ f.drop => /\ f.ball = "brick"
                 /\ engineBricks[f.brick] = 1
                 /\ ~isBossLevel(engineLevel)
                 /\ powerUps - Len(f.caught) - f.fell < MaxPowerUps

\* startGame and nextLevel: engine.setLevel(lv); engine.start(), lv being the
\* level the player has reached.
EngineStartAt ==
    /\ mounted
    /\ Startable
    /\ runs < MaxMatches
    /\ \E lv \in LevelInputs :
          AppSet(H(Engine_start(Engine_setLevel([A EXCEPT !.runs = @ + 1], lv)), "start"))

\* resetToIdle(resetLevelTo1) of the component.
EngineResetToIdle ==
    /\ mounted
    /\ \E resetLevelTo1 \in BOOLEAN :
          AppSet(H(IF resetLevelTo1
                   THEN Engine_resetToIdle(Engine_setLevel(A, 1))
                   ELSE Engine_resetToIdle(A), "resetToIdle"))

EngineTogglePause ==
    /\ mounted
    /\ AppSet(H(Engine_togglePause(A), "togglePause"))

\* tick: engine.step(ts); a frame requested while running can still arrive
\* after the state has changed.
EngineStep ==
    /\ mounted
    /\ \E f \in StepFindings :
          /\ FindingPossible(f)
          /\ AppSet(H(Engine_step(A, f), "step"))

EngineMovePaddleTo ==
    /\ mounted
    /\ AppSet(H(Engine_movePaddleTo(A), "movePaddleTo"))

\* ArrowUp and pointerdown: if (engine.stuckToPaddle) engine.releaseBallFromMagnet().
EngineRelease ==
    /\ mounted
    /\ stuckToPaddle
    /\ AppSet(H(Engine_releaseBallFromMagnet(A), "releaseBallFromMagnet"))

\* performance.now() advances.  The engine reads the clock in a running step
\* only, so the time that passes in the other states shows as a later start.
TimePasses ==
    /\ mounted
    /\ engineState \in {"running", "paused"}
    /\ now + TimeStep <= MaxNow
    /\ AppSet(H([A EXCEPT !.now = @ + TimeStep], "time"))

EngineNext ==
    \/ Mount
    \/ EngineStartAt
    \/ EngineResetToIdle
    \/ EngineTogglePause
    \/ EngineStep
    \/ EngineMovePaddleTo
    \/ EngineRelease
    \/ TimePasses

(***************************************************************************)
(* Level generation of the daily variant computed as the code computes it: *)
(* the seed text as a sequence of UTF-16 code units, hashStringToSeed and  *)
(* mulberry32 on 32-bit words.  A word is kept as two 16-bit halves since  *)
(* the products of the code exceed the integers TLC computes with; every   *)
(* operator gives the low 32 bits JavaScript's |0, >>>0 and Math.imul keep.*)
(***************************************************************************)
Half == 65536
Byte == 256

Word(hi, lo) == [hi |-> hi, lo |-> lo]

RECURSIVE XorBits(_, _, _)
XorBits(a, b, n) ==
    IF n = 0 THEN 0
    ELSE ((a + b) % 2) + 2 * XorBits(a \div 2, b \div 2, n - 1)

RECURSIVE OrBits(_, _, _)
OrBits(a, b, n) ==
    IF n = 0 THEN 0
    ELSE (IF a % 2 = 1 \/ b % 2 = 1 THEN 1 ELSE 0)
         + 2 * OrBits(a \div 2, b \div 2, n - 1)

\* a ^ b
xor(a, b) == Word(XorBits(a.hi, b.hi, 16), XorBits(a.lo, b.lo, 16))

\* a | b
or(a, b) == Word(OrBits(a.hi, b.hi, 16), OrBits(a.lo, b.lo, 16))

RECURSIVE Pow2(_)
Pow2(k) == IF k = 0 THEN 1 ELSE 2 * Pow2(k - 1)

\* a >>> k, for 0 < k < 16
shr(a, k) ==
    Word(a.hi \div Pow2(k),
         (a.lo \div Pow2(k)) + (a.hi % Pow2(k)) * Pow2(16 - k))

\* (a + b) | 0
add(a, b) ==
    LET lo == a.lo + b.lo
    IN  Word((a.hi + b.hi + lo \div Half) % Half, lo % Half)

\* The 32-bit product of two 16-bit halves, by 8-bit limbs.
mulHalves(x, y) ==
    LET p0 == (x % Byte) * (y % Byte)
        p1 == (x \div Byte) * (y % Byte) + (x % Byte) * (y \div Byte)
        p2 == (x \div Byte) * (y \div Byte)
        low == p0 + (p1 % Byte) * Byte
    IN  Word((p2 + p1 \div Byte + low \div Half) % Half, low % Half)

\* Math.imul(a, b)
imul(a, b) ==
    LET ll == mulHalves(a.lo, b.lo)
    IN  Word((ll.hi + mulHalves(a.hi, b.lo).lo + mulHalves(a.lo, b.hi).lo) % Half,
             ll.lo)

FNV_OFFSET == Word(33052, 40389)      \* 2166136261
FNV_PRIME == Word(256, 403)           \* 16777619
MULBERRY_STEP == Word(27947, 31221)   \* 0x6d2b79f5

\* hashStringToSeed(s), s a sequence of code units: the values of h after
\* each unit, in order.
RECURSIVE hashSteps(_, _)
hashSteps(s, n) ==
    IF n = 0 THEN << >>
    ELSE LET before == hashSteps(s, n - 1)
             h == IF n = 1 THEN FNV_OFFSET ELSE before[n - 1]
         IN  Append(before, imul(xor(h, Word(0, s[n])), FNV_PRIME))

hashStringToSeed(s) ==
    IF Len(s) = 0 THEN FNV_OFFSET ELSE hashSteps(s, Len(s))[Len(s)]

\* One call of the closure mulberry32 returns: the new `a` and the 32-bit
\* numerator of the value returned (the value is numerator / 4294967296).
mulberry32Call(a0) ==
    LET a == add(a0, MULBERRY_STEP)
        t1 == imul(xor(a, shr(a, 15)), or(Word(0, 1), a))
        t2 == xor(add(t1, imul(xor(t1, shr(t1, 7)), or(Word(0, 61), t1))), t1)
    IN  [a |-> a, numerator |-> xor(t2, shr(t2, 14))]

\* rand() < 0.18: 0.18 * 4294967296 = 773094113.28 = 11796 * 65536 + 31457.28
below018(w) == w.hi < 11796 \/ (w.hi = 11796 /\ w.lo <= 31457)

\* Code units of the texts the seed is made of.
Digit(n) == 48 + n

RECURSIVE Decimal(_)
Decimal(n) == IF n < 10 THEN << Digit(n) >> ELSE Decimal(n \div 10) \o << Digit(n % 10) >>

\* String(n).padStart(2, "0")
padStart2(n) == IF n < 10 THEN << Digit(0) >> \o Decimal(n) ELSE Decimal(n)

HYPHEN == 45
LVL == << 108, 118, 108 >>                 \* "lvl"
ANON == << 97, 110, 111, 110 >>            \* "anon"
ADDR_ == << 97, 100, 100, 114, 95 >>       \* "addr_"

\* dateKey(d) of a date [y, m, d] (m counted from 1 as getMonth() + 1 gives).
dateKeyText(d) ==
    Decimal(d.y) \o << HYPHEN >> \o padStart2(d.m) \o << HYPHEN >> \o padStart2(d.d)

\* `${dailyIdRef.current}-${userKeyRef.current}-lvl-${lvl}`
seedText_Stamped(g, lvl) ==
    g.dailyId \o << HYPHEN >> \o g.userKey \o << HYPHEN >> \o LVL \o << HYPHEN >>
        \o Decimal(lvl) \o << HYPHEN >> \o Decimal(g.calls)

seedText(g, lvl) ==
    g.dailyId \o << HYPHEN >> \o g.userKey \o << HYPHEN >> \o LVL \o << HYPHEN >>
        \o Decimal(lvl)

GAME_W == 360
HEADER_H == 44
BRICK_GAP == 6
COLS == 7
BRICK_H == 18
SIDE == 14

\* clamp(4 + Math.floor((lvl - 1) * 1.2), 4, 8)
levelRows(lvl) == Max(4, Min(8, 4 + ((lvl - 1) * 12) \div 10))

brickW == (GAME_W - SIDE * 2 - BRICK_GAP * (COLS - 1)) \div COLS

\* What n calls of rand() return, in order, a the generator's state before.
RECURSIVE randCalls(_, _)
randCalls(a, n) ==
    IF n = 0 THEN << >>
    ELSE LET before == randCalls(a, n - 1)
         IN  Append(before, mulberry32Call(IF n = 1 THEN a ELSE before[n - 1].a))

\* The inner loop of makeLevelBricks: the bricks of row r (counted from 0).
pushRow(r, rand) ==
    [c \in 1..COLS |->
        [x |-> SIDE + (c - 1) * (brickW + BRICK_GAP),
         y |-> HEADER_H + 18 + r * (BRICK_H + BRICK_GAP),
         w |-> brickW, h |-> BRICK_H, alive |-> TRUE,
         hp |-> IF below018(rand[c].numerator) THEN 2 ELSE 1]]

\* The outer loop after `rows` rows: the list so far and the generator's state.
RECURSIVE pushBricks(_, _)
pushBricks(seed, rows) ==
    IF rows = 0 THEN [bricks |-> << >>, a |-> seed]
    ELSE LET before == pushBricks(seed, rows - 1)
             rand == randCalls(before.a, COLS)
         IN  [bricks |-> before.bricks \o pushRow(rows - 1, rand),
              a |-> rand[COLS].a]

\* makeLevelBricks(lvl) on the refs g: a new generator from the seed, the
\* list written to bricksRef, the drops emptied.
makeLevelLayout(g, lvl) ==
    [g EXCEPT !.bricks = pushBricks(hashStringToSeed(seedText(g, lvl)),
                                    levelRows(lvl)).bricks,
              !.drops = 0]

(***************************************************************************)
(* makeLevelBricks called again and again: for every level, after the user *)
(* resolved to another key, after bricks were hit and drops spawned.       *)
(***************************************************************************)
GenDays == {[y |-> 2025, m |-> 1, d |-> 9], [y |-> 2025, m |-> 12, d |-> 31]}
GenUserKeys == {ANON, ADDR_ \o << Digit(0), 120, 97, Digit(1) >>}   \* "addr_0xa1"
GenLevels == 1..MaxGenLevel

G == [dailyId |-> genDailyId, userKey |-> genUserKey, bricks |-> genBricks,
      drops |-> genDrops, calls |-> genCalls]

GenIdle ==
    /\ genDailyId = << >>
    /\ genUserKey = ANON
    /\ genBricks = << >>
    /\ genDrops = 0
    /\ genCalls = 0
    /\ genSeen = {}
    /\ genRepeat = FALSE

\* useState(() => dateKey(new Date())), userKeyRef = useRef("anon")
GenInit ==
    /\ genDailyId \in {dateKeyText(d) : d \in GenDays}
    /\ genUserKey = ANON
    /\ genBricks = << >>
    /\ genDrops = 0
    /\ genCalls = 0
    /\ genSeen = {}
    /\ genRepeat = FALSE

GenSet(g, lvl) ==
    /\ genDailyId' = g.dailyId
    /\ genUserKey' = g.userKey
    /\ genBricks' = g.bricks
    /\ genDrops' = g.drops
    /\ genCalls' = g.calls
    /\ genSeen' = IF lvl = 0 THEN genSeen
                  ELSE genSeen \cup {[dailyId |-> g.dailyId, userKey |-> g.userKey,
                                      lvl |-> lvl, bricks |-> g.bricks]}
    /\ genRepeat' = IF lvl = 0 THEN FALSE
                    ELSE \E r \in genSeen : /\ r.dailyId = g.dailyId
                                            /\ r.userKey = g.userKey
                                            /\ r.lvl = lvl
    /\ UNCHANGED << dailyVars, appVars, loadVars, streakVars, lateVars >>

GenCall ==
    /\ genCalls < MaxGenCalls
    /\ \E lvl \in GenLevels :
          GenSet(makeLevelLayout([G EXCEPT !.calls = @ + 1], lvl), lvl)

\* The "Resolve user" effect: userKeyRef.current = key.
GenResolveUser ==
    /\ \E key \in GenUserKeys :
          /\ key # genUserKey
          /\ GenSet([G EXCEPT !.userKey = key], 0)

\* A frame in which the ball hits the first brick still alive; the brick
\* spawns a drop when it dies.
GenHit ==
    /\ \E i \in 1..Len(genBricks) :
          /\ genBricks[i].alive
          /\ \A j \in 1..(i - 1) : ~genBricks[j].alive
          /\ i <= MaxGenHits
          /\ LET hp == genBricks[i].hp - 1
             IN  GenSet([G EXCEPT !.bricks[i].hp = hp,
                                  !.bricks[i].alive = hp > 0,
                                  !.drops = IF hp > 0 THEN @ ELSE 1], 0)

GenNext == GenCall \/ GenResolveUser \/ GenHit
(***************************************************************************)
(* The streak on a day's first load.  A calendar day is [y, m, d]; the     *)
(* keys are the texts the code formats and splits again, as sequences of   *)
(* code units; NoText stands for null (getItem of an absent key).  The     *)
(* clock is read once per call: applyDailyReward's getIstanbulDateKey()    *)
(* and getIstanbulParts() see the same day.                                *)
(***************************************************************************)
NoText == << 0 >>
NoDay == [y |-> 0, m |-> 0, d |-> 0]

isLeap(y) == (y % 4 = 0 /\ y % 100 # 0) \/ y % 400 = 0

daysInMonth(y, m) ==
    IF m = 2 THEN (IF isLeap(y) THEN 29 ELSE 28)
    ELSE IF m \in {4, 6, 9, 11} THEN 30 ELSE 31

\* new Date(y, m - 1, d) followed by setDate(getDate() - 1), for a valid day:
\* day 0 of a month is the last day of the month before.
dayBefore_SameMonth(day) == [day EXCEPT !.d = @ - 1]

dayBefore(day) ==
    IF day.d > 1 THEN [day EXCEPT !.d = @ - 1]
    ELSE IF day.m > 1 THEN [y |-> day.y, m |-> day.m - 1,
                            d |-> daysInMonth(day.y, day.m - 1)]
    ELSE [y |-> day.y - 1, m |-> 12, d |-> 31]

\* Number(text) of a text of digits; Number("") is 0.
RECURSIVE Number(_)
Number(s) ==
    IF Len(s) = 0 THEN 0
    ELSE 10 * Number(SubSeq(s, 1, Len(s) - 1)) + (s[Len(s)] - Digit(0))

\* text.split("-")
RECURSIVE split(_)
split(s) ==
    IF \A i \in 1..Len(s) : s[i] # HYPHEN THEN << s >>
    ELSE LET i == CHOOSE k \in 1..Len(s) :
                      s[k] = HYPHEN /\ \A j \in 1..(k - 1) : s[j] # HYPHEN
         IN  << SubSeq(s, 1, i - 1) >> \o split(SubSeq(s, i + 1, Len(s)))

\* x || 1
orOne(x) == IF x = 0 THEN 1 ELSE x

\* yesterdayKeyFrom(dailyId) of part_005
yesterdayKeyFrom(dailyId) ==
    LET parts == split(dailyId)
        y == Number(parts[1])
        m == IF Len(parts) >= 2 THEN Number(parts[2]) ELSE 0
        da == IF Len(parts) >= 3 THEN Number(parts[3]) ELSE 0
    IN  dateKeyText(dayBefore([y |-> y, m |-> orOne(m), d |-> orOne(da)]))

\* The streak effect of part_005 on localStorage st = [last, count] for the
\* daily id: the storage it leaves and the count it gives setStreak.
streakEffect(st, dailyId) ==
    LET last == st.last
        prev == IF st.count # NoText /\ st.count # << >> THEN Number(st.count) ELSE 0
        yesterday == yesterdayKeyFrom(dailyId)
        nextCount == IF last = dailyId THEN prev
                     ELSE IF last = yesterday THEN prev + 1
                     ELSE 1
    IN  [st |-> [last |-> dailyId, count |-> Decimal(nextCount)],
         streak |-> nextCount]

\* getIstanbulDateKey() on the day `day`
getIstanbulDateKey(day) ==
    Decimal(day.y) \o << HYPHEN >> \o padStart2(day.m) \o << HYPHEN >> \o padStart2(day.d)

\* The streak part of DefaultRewards.applyDailyReward on the day `day`: the
\* profile's lastPlayDateKey ("" is << >>) and streakDays afterwards.
rewardStreak(profile, day) ==
    LET todayKey == getIstanbulDateKey(day)
        prev == profile.lastPlayDateKey
        yesterday == dayBefore(day)
        yesterdayKey == Decimal(yesterday.y) \o << HYPHEN >> \o padStart2(yesterday.m)
                            \o << HYPHEN >> \o padStart2(yesterday.d)
        newStreak == IF prev # << >> /\ prev = yesterdayKey
                     THEN profile.streakDays + 1 ELSE 1
    IN  IF profile.lastPlayDateKey = todayKey THEN profile
        ELSE [lastPlayDateKey |-> todayKey, streakDays |-> newStreak]

(***************************************************************************)
(* The two streak computations on every pair of days of a sample of the    *)
(* calendar that has month ends, a year end and both kinds of February.    *)
(***************************************************************************)
StreakDays ==
    {[y |-> 2023, m |-> 12, d |-> 31], [y |-> 2024, m |-> 1, d |-> 1],
     [y |-> 2024, m |-> 2, d |-> 28], [y |-> 2024, m |-> 2, d |-> 29],
     [y |-> 2024, m |-> 3, d |-> 1], [y |-> 2024, m |-> 3, d |-> 31],
     [y |-> 2025, m |-> 2, d |-> 28], [y |-> 2025, m |-> 3, d |-> 1],
     [y |-> 2025, m |-> 10, d |-> 9], [y |-> 2025, m |-> 10, d |-> 10]}

\* The number of the day in the proleptic Gregorian calendar.
RECURSIVE daysBeforeMonth(_, _)
daysBeforeMonth(y, m) ==
    IF m = 1 THEN 0 ELSE daysBeforeMonth(y, m - 1) + daysInMonth(y, m - 1)

dayNumber(day) ==
    365 * (day.y - 1) + (day.y - 1) \div 4 - (day.y - 1) \div 100
        + (day.y - 1) \div 400 + daysBeforeMonth(day.y, day.m) + day.d

StreakIdle ==
    /\ stToday = NoDay
    /\ stStore = [last |-> NoText, count |-> NoText]
    /\ stProfile = [lastPlayDateKey |-> << >>, streakDays |-> 0]
    /\ stLastDay = [effect |-> NoDay, reward |-> NoDay]
    /\ stCount = 0
    /\ stCase = [last |-> NoDay, prev |-> 0, today |-> NoDay]
    /\ stStreak = 0
    /\ stOp = "none"

\* Storage as the code leaves it: nothing stored, or the key of the last
\* play day with a count of at least 1.
StreakInit ==
    \E t \in StreakDays :
    \E l \in StreakDays \cup {NoDay} :
    \E n \in 1..MaxStreak :
        /\ stToday = t
        /\ stStore = IF l = NoDay THEN [last |-> NoText, count |-> NoText]
                     ELSE [last |-> dateKeyText(l), count |-> Decimal(n)]
        /\ stProfile = IF l = NoDay THEN [lastPlayDateKey |-> << >>, streakDays |-> 0]
                       ELSE [lastPlayDateKey |-> getIstanbulDateKey(l), streakDays |-> n]
        /\ stLastDay = [effect |-> l, reward |-> l]
        /\ stCount = IF l = NoDay THEN 0 ELSE n
        /\ stCase = [last |-> NoDay, prev |-> 0, today |-> NoDay]
        /\ stStreak = 0
        /\ stOp = "none"

\* The streak effect runs with dailyId = dateKey(new Date()) of the day.
StreakEffect ==
    /\ stCount < MaxStreak + 1
    /\ LET r == streakEffect(stStore, dateKeyText(stToday))
       IN  /\ stStore' = r.st
           /\ stStreak' = r.streak
           /\ stCount' = r.streak
    /\ stCase' = [last |-> stLastDay.effect, prev |-> stCount, today |-> stToday]
    /\ stLastDay' = [stLastDay EXCEPT !.effect = stToday]
    /\ stOp' = "effect"
    /\ UNCHANGED << stToday, stProfile, dailyVars, appVars, loadVars, genVars, lateVars >>

\* The mount effect: applyDailyReward(store.loadProfile(), ...), saveProfile.
StreakReward ==
    /\ stProfile.streakDays < MaxStreak + 1
    /\ LET p == rewardStreak(stProfile, stToday)
       IN  /\ stProfile' = p
           /\ stStreak' = p.streakDays
    /\ stCase' = [last |-> stLastDay.reward, prev |-> stProfile.streakDays,
                  today |-> stToday]
    /\ stLastDay' = [stLastDay EXCEPT !.reward = stToday]
    /\ stOp' = "reward"
    /\ UNCHANGED << stToday, stStore, stCount, dailyVars, appVars, loadVars, genVars, lateVars >>

\* The app is opened again on a later day.
StreakLaterDay ==
    /\ \E t \in StreakDays :
          /\ dayNumber(t) > dayNumber(stToday)
          /\ stToday' = t
    /\ stOp' = "day"
    /\ UNCHANGED << stStore, stProfile, stLastDay, stCount, stCase, stStreak,
                    dailyVars, appVars, loadVars, genVars, lateVars >>

StreakNext == StreakEffect \/ StreakReward \/ StreakLaterDay
(***************************************************************************)
(* Phase-2 app: the player's profile.  A profile is the record of its      *)
(* fields (playerId left out, unlockedSkins as a set); localStorage holds  *)
(* NoProfile (nothing, or something safeJsonParse gives null for) or a     *)
(* profile.  A date key is the number of its day, 0 for "".                *)
(***************************************************************************)
\* Math.floor(120 + (level - 1) * 90 + Math.pow(level - 1, 1.3) * 55) for
\* level = 1..59, the levels the loop of computePlayerLevel asks for.
XP_NEEDED ==
    << 120, 265, 435, 619, 813, 1015, 1224, 1440, 1661, 1886, 2117, 2352, 2590,
       2833, 3079, 3329, 3581, 3837, 4096, 4357, 4622, 4889, 5158, 5430, 5704,
       5981, 6260, 6541, 6824, 7110, 7397, 7686, 7978, 8271, 8566, 8863, 9161,
       9462, 9764, 10067, 10373, 10680, 10989, 11299, 11610, 11924, 12238, 12555,
       12872, 13191, 13512, 13834, 14157, 14482, 14808, 15135, 15464, 15793,
       16124 >>

xpNeededForLevel(lvl) == XP_NEEDED[lvl]

\* The while loop of computePlayerLevel from (lvl, remaining) on.
RECURSIVE levelLoop(_, _)
levelLoop(lvl, remaining) ==
    IF lvl < 60 /\ remaining >= xpNeededForLevel(lvl)
    THEN levelLoop(lvl + 1, remaining - xpNeededForLevel(lvl))
    ELSE lvl

computePlayerLevel(xp) == levelLoop(1, xp)

SkinIds == {"neon", "plasma", "gold", "mint"}

unlockLevel(sid) ==
    CASE sid = "neon" -> 1 [] sid = "plasma" -> 4 [] sid = "gold" -> 8
      [] sid = "mint" -> 12

NoProfile == [none |-> TRUE]

awardXp_StaleLevel(profile, amount) == [profile EXCEPT !.xp = @ + amount]

\* DefaultRewards.awardXp(profile, amount)
awardXp(profile, amount) ==
    [profile EXCEPT !.xp = @ + amount,
                    !.playerLevel = computePlayerLevel(profile.xp + amount)]

\* DefaultRewards.unlockSkins(profile)
unlockSkins(profile) ==
    LET unlocks == profile.unlockedSkins
                     \cup {sid \in SkinIds : profile.playerLevel >= unlockLevel(sid)}
    IN  [profile EXCEPT !.unlockedSkins = unlocks,
                        !.selectedSkin = IF @ \in unlocks THEN @ ELSE "neon"]

\* StorageStore.loadProfile() on the stored value: what it returns and what
\* it leaves stored.
loadProfile(stored) ==
    IF stored = NoProfile
    THEN [xp |-> 0, playerLevel |-> 1, bestScoreAllTime |-> 0, streakDays |-> 0,
          lastPlayDateKey |-> 0, unlockedSkins |-> {"neon"}, selectedSkin |-> "neon"]
    ELSE LET lvl == computePlayerLevel(stored.xp)
             unlocks == stored.unlockedSkins
                          \cup {sid \in SkinIds : lvl >= unlockLevel(sid)}
         IN  [stored EXCEPT !.playerLevel = lvl,
                            !.unlockedSkins = unlocks,
                            !.selectedSkin = IF @ \in unlocks THEN @ ELSE "neon"]

rewardDue_Always(profile, day) == TRUE

\* applyDailyReward's gate: profile.lastPlayDateKey === today fails.
rewardDue(profile, day) == profile.lastPlayDateKey # day

\* DefaultRewards.applyDailyReward(profile, attemptsLeft, practice) on the day
\* `day`: the profile, the attempts and the kind of message it returns, and
\* what it stores under STORAGE_ATTEMPTS (NoRecord when it stores nothing).
dailyReward(profile, attempts, practice, day) ==
    IF ~rewardDue(profile, day)
    THEN [profile |-> profile, attemptsLeft |-> attempts, message |-> "none",
          stores |-> NoRecord]
    ELSE LET prev == profile.lastPlayDateKey
             newStreak == IF prev # 0 /\ prev = day - 1
                          THEN profile.streakDays + 1 ELSE 1
             bonusXp == 60 + Min(140, newStreak * 12)
             giveLife == newStreak % 3 = 0
             next == unlockSkins(awardXp(
                         [profile EXCEPT !.streakDays = newStreak,
                                         !.lastPlayDateKey = day], bonusXp))
             nextAttempts == clamp(attempts + 1, 0, DAILY_ATTEMPTS + 1)
         IN  IF giveLife /\ ~practice
             THEN [profile |-> next, attemptsLeft |-> nextAttempts,
                   message |-> "xp+life", stores |-> StoredRecord(day, nextAttempts)]
             ELSE [profile |-> next, attemptsLeft |-> attempts,
                   message |-> "xp", stores |-> NoRecord]

\* The events the engine gives the onEvent closure.
WinEvents ==
    {[score |-> s, level |-> lv, perfect |-> pf, boss |-> isBossLevel(lv)] :
        s \in {120}, lv \in {1, 5}, pf \in BOOLEAN}

LoseEvents == {[score |-> 0, level |-> lv] : lv \in {1, 5}}

\* What localStorage[STORAGE_PROFILE] can hold when the app is opened: nothing,
\* a profile the app saved, or one saved before the XP curve gave its level.
RawProfiles ==
    {NoProfile,
     [xp |-> 700, playerLevel |-> 3, bestScoreAllTime |-> 0, streakDays |-> 2,
      lastPlayDateKey |-> 1, unlockedSkins |-> {"neon"}, selectedSkin |-> "neon"],
     [xp |-> 900, playerLevel |-> 2, bestScoreAllTime |-> 120, streakDays |-> 1,
      lastPlayDateKey |-> 1, unlockedSkins |-> {"neon"}, selectedSkin |-> "gold"]}

NoCall == [day |-> 0, earlier |-> 0, profile |-> NoProfile, attemptsLeft |-> 0,
           out |-> NoProfile, outAttempts |-> 0, message |-> "none"]

\* Per day: the calls of applyDailyReward (2 stands for two or more) and those
\* of them that granted.
NoGrants == [d \in Days |-> [calls |-> 0, grants |-> 0]]

ProfIdle ==
    /\ pfDay = 0
    /\ pfStoredProfile = NoProfile
    /\ pfStoredAttempts = NoRecord
    /\ pfProfile = NoProfile
    /\ pfAttemptsLeft = DAILY_ATTEMPTS
    /\ pfMounted = FALSE
    /\ pfGrants = NoGrants
    /\ pfCall = NoCall
    /\ pfWrites = {}
    /\ pfOps = 0
    /\ pfOp = "none"

ProfInit ==
    /\ pfDay \in {1, 2}
    /\ pfStoredProfile \in RawProfiles
    /\ pfStoredAttempts \in {NoRecord, StoredRecord(1, 2)}
    /\ pfProfile = NoProfile
    /\ pfAttemptsLeft = DAILY_ATTEMPTS
    /\ pfMounted = FALSE
    /\ pfGrants = NoGrants
    /\ pfCall = NoCall
    /\ pfWrites = {}
    /\ pfOps = 0
    /\ pfOp = "init"

ProfFrame == UNCHANGED << earlyVars, bounceVars, srvVars, boardVars, submitVars, lastVars >>

\* The INIT effect: loadAttempts, loadProfile, applyDailyReward, saveProfile,
\* setProfile, setAttemptsLeft.
ProfMount ==
    /\ ~pfMounted
    /\ LET att == loadAttempts(pfDay, pfStoredAttempts)
           p0 == loadProfile(pfStoredProfile)
           daily == dailyReward(p0, att.ret.left, FALSE, pfDay)
       IN  /\ pfStoredProfile' = daily.profile
           /\ pfProfile' = daily.profile
           /\ pfAttemptsLeft' = daily.attemptsLeft
           /\ pfStoredAttempts' = IF daily.stores # NoRecord THEN daily.stores
                                  ELSE att.stored
           /\ pfGrants' = [pfGrants EXCEPT
                             ![pfDay].calls = Min(2, @ + 1),
                             ![pfDay].grants = IF daily.message # "none"
                                               THEN @ + 1 ELSE @]
           /\ pfCall' = [day |-> pfDay, earlier |-> pfGrants[pfDay].calls,
                         profile |-> p0, attemptsLeft |-> att.ret.left,
                         out |-> daily.profile, outAttempts |-> daily.attemptsLeft,
                         message |-> daily.message]
           /\ pfWrites' = {p0, daily.profile}
    /\ pfMounted' = TRUE
    /\ pfOp' = "mount"
    /\ UNCHANGED << pfDay, pfOps >>
    /\ ProfFrame

\* The page is left or reloaded: the component's state is gone, storage stays.
ProfReload ==
    /\ pfMounted
    /\ pfMounted' = FALSE
    /\ pfProfile' = NoProfile
    /\ pfAttemptsLeft' = DAILY_ATTEMPTS
    /\ pfWrites' = {}
    /\ pfOp' = "reload"
    /\ UNCHANGED << pfDay, pfStoredProfile, pfStoredAttempts, pfGrants, pfCall,
                    pfOps >>
    /\ ProfFrame

\* Istanbul midnight passes.
ProfMidnight ==
    /\ pfDay < MaxDay
    /\ pfDay' = pfDay + 1
    /\ pfWrites' = {}
    /\ pfOp' = "midnight"
    /\ UNCHANGED << pfStoredProfile, pfStoredAttempts, pfProfile, pfAttemptsLeft,
                    pfMounted, pfGrants, pfCall, pfOps >>
    /\ ProfFrame

\* The interval of the INIT effect: setAttemptsLeft(store.loadAttempts().left).
ProfTick ==
    /\ pfMounted
    /\ LET att2 == loadAttempts(pfDay, pfStoredAttempts)
       IN  /\ pfStoredAttempts' = att2.stored
           /\ pfAttemptsLeft' = att2.ret.left
    /\ pfWrites' = {}
    /\ pfOp' = "tick"
    /\ UNCHANGED << pfDay, pfStoredProfile, pfProfile, pfMounted, pfGrants, pfCall,
                    pfOps >>
    /\ ProfFrame

\* consumeAttemptOnce when it reaches its setAttemptsLeft (consume), or
\* returns before it (practice mode, or the run has consumed already).
ProfConsume(consume) ==
    IF consume
    THEN /\ pfAttemptsLeft' = Max(0, pfAttemptsLeft - 1)
         /\ pfStoredAttempts' = StoredRecord(pfDay, Max(0, pfAttemptsLeft - 1))
    ELSE UNCHANGED << pfAttemptsLeft, pfStoredAttempts >>

\* onEvent "win": awardXp, unlockSkins, bestScoreAllTime, saveProfile, setProfile.
ProfWin ==
    /\ pfMounted
    /\ pfOps < MaxProfileOps
    /\ \E e \in WinEvents, inPractice \in BOOLEAN, consume \in BOOLEAN :
          LET current == loadProfile(pfStoredProfile)
              baseXp == IF e.boss THEN 160 ELSE 90
              lvlBonus == Min(120, e.level * 10)
              perfBonus == IF ~inPractice /\ e.perfect THEN 80 ELSE 0
              next0 == unlockSkins(awardXp(current, baseXp + lvlBonus + perfBonus))
              next == [next0 EXCEPT !.bestScoreAllTime = Max(@, e.score)]
          IN  /\ ProfConsume(consume /\ ~inPractice)
              /\ pfStoredProfile' = next
              /\ pfProfile' = next
              /\ pfWrites' = {current, next}
    /\ pfOps' = pfOps + 1
    /\ pfOp' = "win"
    /\ UNCHANGED << pfDay, pfMounted, pfGrants, pfCall >>
    /\ ProfFrame

\* onEvent "lose": awardXp, unlockSkins, saveProfile, setProfile.
ProfLose ==
    /\ pfMounted
    /\ pfOps < MaxProfileOps
    /\ \E e \in LoseEvents, consume \in BOOLEAN :
          LET current == loadProfile(pfStoredProfile)
              next == unlockSkins(awardXp(current, 18 + Min(20, e.level)))
          IN  /\ ProfConsume(consume)
              /\ pfStoredProfile' = next
              /\ pfProfile' = next
              /\ pfWrites' = {current, next}
    /\ pfOps' = pfOps + 1
    /\ pfOp' = "lose"
    /\ UNCHANGED << pfDay, pfMounted, pfGrants, pfCall >>
    /\ ProfFrame

\* setSkin(id): the updater of setProfile.
ProfSetSkin ==
    /\ pfMounted
    /\ pfProfile # NoProfile
    /\ pfOps < MaxProfileOps
    /\ \E id \in SkinIds :
          IF id \notin pfProfile.unlockedSkins
          THEN /\ UNCHANGED << pfProfile, pfStoredProfile >>
               /\ pfWrites' = {}
          ELSE LET next == [pfProfile EXCEPT !.selectedSkin = id]
               IN  /\ pfProfile' = next
                   /\ pfStoredProfile' = next
                   /\ pfWrites' = {next}
    /\ pfOps' = pfOps + 1
    /\ pfOp' = "skin"
    /\ UNCHANGED << pfDay, pfStoredAttempts, pfAttemptsLeft, pfMounted, pfGrants,
                    pfCall >>
    /\ ProfFrame

ProfNext ==
    \/ ProfMount
    \/ ProfReload
    \/ ProfMidnight
    \/ ProfTick
    \/ ProfWin
    \/ ProfLose
    \/ ProfSetSkin
(***************************************************************************)
(* part_005, stepGame: the paddle test of one ball.  Lengths are whole     *)
(* pixels, velocities are in 1/100 px/s, sines and cosines in 1/10000.     *)
(***************************************************************************)
Abs(n) == IF n < 0 THEN -n ELSE n

\* Math.sqrt on whole numbers: the largest r of lo..hi with r * r <= n.
RECURSIVE sqrtBetween(_, _, _)
sqrtBetween(n, lo, hi) ==
    IF lo = hi THEN lo
    ELSE LET mid == (lo + hi + 1) \div 2
         IN  IF mid * mid <= n THEN sqrtBetween(n, mid, hi)
             ELSE sqrtBetween(n, lo, mid - 1)

sqrt(n) == sqrtBetween(n, 0, 46340)

\* circleRectCollide(cx, cy, r, rx, ry, rw, rh)
circleRectCollide(cx, cy, r, rx, ry, rw, rh) ==
    LET closestX == clamp(cx, rx, rx + rw)
        closestY == clamp(cy, ry, ry + rh)
        dx == cx - closestX
        dy == cy - closestY
    IN  dx * dx + dy * dy <= r * r

\* << Math.sin(angle), Math.cos(angle) >> for angle = hit * maxAngle,
\* hit = |b.x - p.x| / (p.w / 2), maxAngle = 65 degrees, at the offsets the
\* model tries, per paddle width.
SIN_COS ==
    92 :> (0 :> << 0, 10000 >> @@ 12 :> << 2916, 9565 >> @@ 23 :> << 5373, 8434 >>
           @@ 35 :> << 7599, 6500 >> @@ 46 :> << 9063, 4226 >>
           @@ 50 :> << 9435, 3313 >> @@ 53 :> << 9654, 2607 >>)
    @@ 130 :> (0 :> << 0, 10000 >> @@ 33 :> << 5446, 8387 >> @@ 65 :> << 9063, 4226 >>
               @@ 70 :> << 9397, 3420 >> @@ 72 :> << 9511, 3090 >>)

sin(w, dx) == (IF dx < 0 THEN -1 ELSE 1) * SIN_COS[w][Abs(dx)][1]
cos(w, dx) == SIN_COS[w][Abs(dx)][2]

\* speed * t for t in 1/10000, rounded to the nearest 1/100 px/s.
times(speed, t) ==
    (IF t < 0 THEN -1 ELSE 1) * ((speed * Abs(t) + 5000) \div 10000)

paddleBounce_Reflect(b, w, dx) ==
    LET speed == sqrt(b.vx * b.vx + b.vy * b.vy)
    IN  [y |-> (GAME_H - 54) - BALL_R,
         vx |-> times(speed, sin(w, dx)),
         vy |-> -Abs(b.vy)]

\* The body of the paddle test: b.y, b.vx and b.vy it assigns.
paddleBounce(b, w, dx) ==
    LET speed == sqrt(b.vx * b.vx + b.vy * b.vy)
    IN  [y |-> (GAME_H - 54) - BALL_R,
         vx |-> times(speed, sin(w, dx)),
         vy |-> -Abs(times(speed, cos(w, dx)))]

\* b.vy > 0 && circleRectCollide(b.x, b.y, b.r, paddleX, paddleY, p.w, p.h),
\* with x measured from p.x.
paddleTest(b, w, dx) ==
    /\ b.vy > 0
    /\ circleRectCollide(dx, b.y, BALL_R, -(w \div 2), GAME_H - 54, w, PADDLE_H)

\* Velocities of a ball in flight: speed 240 or 190 (baseBallSpeed), in the
\* directions of a launch, of a multiball ball and of bounces off walls,
\* bricks and the paddle, downward and upward.
BallVelocities ==
    {<< 0, 24000 >>, << 14400, 19200 >>, << -19200, 14400 >>, << 8400, 22482 >>,
     << -6650, 17798 >>, << 11400, 15200 >>, << 0, 19000 >>, << 23900, 2185 >>,
     << 14400, -19200 >>, << -6650, -17798 >>, << 0, -24000 >>}

BallHeights == {440, 455, 459, 462, 470, 480, 490, 492}

BounceIdle ==
    /\ bnW = 92
    /\ bnDx = 0
    /\ bnY = 0
    /\ bnVx = 0
    /\ bnVy = 0
    /\ bnBefore = [y |-> 0, vx |-> 0, vy |-> 0]
    /\ bnHit = FALSE
    /\ bnDone = FALSE

BounceInit ==
    /\ bnW \in {92, 130}
    /\ \E a \in DOMAIN SIN_COS[bnW] : bnDx \in {a, -a}
    /\ bnY \in BallHeights
    /\ \E v \in BallVelocities : bnVx = v[1] /\ bnVy = v[2]
    /\ bnBefore = [y |-> bnY, vx |-> bnVx, vy |-> bnVy]
    /\ bnHit = FALSE
    /\ bnDone = FALSE

\* stepGame reaches the paddle test of the ball.
PaddleCollision ==
    /\ ~bnDone
    /\ LET b == [y |-> bnY, vx |-> bnVx, vy |-> bnVy]
           after == IF paddleTest(b, bnW, bnDx) THEN paddleBounce(b, bnW, bnDx)
                    ELSE b
       IN  /\ bnHit' = paddleTest(b, bnW, bnDx)
           /\ bnY' = after.y
           /\ bnVx' = after.vx
           /\ bnVy' = after.vy
           /\ bnBefore' = b
    /\ bnDone' = TRUE
    /\ UNCHANGED << bnW, bnDx, earlyVars, profVars, srvVars, boardVars, submitVars, lastVars >>

BounceNext == PaddleCollision
(***************************************************************************)
(* The daily leaderboard service, src/app/api/leaderboard/route.ts.        *)
(* Texts are sequences of code units.  A request body is the parsed JSON   *)
(* object: texts (<< >> for a missing field), numbers as [present, n], a   *)
(* signature as what the wallet made of it.  The tables bb_nonces and      *)
(* bb_scores are sequences of rows; whether they carry a UNIQUE constraint *)
(* is not written in the repository and is a choice of the deployment.     *)
(***************************************************************************)
MAX_SCORE == 999999

startsWith(text, part) ==
    /\ Len(part) <= Len(text)
    /\ SubSeq(text, 1, Len(part)) = part

includes(text, part) ==
    \E i \in 0..(Len(text) - Len(part)) : SubSeq(text, i + 1, i + Len(part)) = part

\* String.prototype.toLowerCase on the code units of A-Z.
toLowerCase(text) ==
    [i \in 1..Len(text) |-> IF text[i] >= 65 /\ text[i] <= 90 THEN text[i] + 32
                            ELSE text[i]]

isDigit(c) == c >= 48 /\ c <= 57

\* /^\d{4}-\d{2}-\d{2}$/.test(dailyId)
safeDailyId(dailyId) ==
    /\ Len(dailyId) = 10
    /\ \A i \in {1, 2, 3, 4, 6, 7, 9, 10} : isDigit(dailyId[i])
    /\ dailyId[5] = HYPHEN
    /\ dailyId[8] = HYPHEN

\* "BrickBreaker Daily "
BRICKBREAKER_DAILY_ ==
    << 66, 114, 105, 99, 107, 66, 114, 101, 97, 107, 101, 114, 32, 68,
       97, 105, 108, 121, 32 >>
\* "Score "
SCORE_ ==
    << 83, 99, 111, 114, 101, 32 >>
\* "Level "
LEVEL_ ==
    << 76, 101, 118, 101, 108, 32 >>
\* "Nonce "
NONCE_ ==
    << 78, 111, 110, 99, 101, 32 >>

SPACE == 32

\* `${n}` of a number: its decimal digits, with the sign of a negative one.
numberText(n) == IF n < 0 THEN << HYPHEN >> \o Decimal(-n) ELSE Decimal(n)

\* submitRemoteScore's msg (part_005):
\* `BrickBreaker Daily ${dailyId} Score ${finalScore} Level ${finalLevel} Nonce ${nonce}`
canonicalMessage(dailyId, finalScore, finalLevel, nonce) ==
    BRICKBREAKER_DAILY_ \o dailyId \o << SPACE >> \o SCORE_ \o numberText(finalScore)
        \o << SPACE >> \o LEVEL_ \o numberText(finalLevel) \o << SPACE >> \o NONCE_
        \o nonce

\* Number(body.score): NaN for a missing field.
NumberOf(raw) == [finite |-> raw.present, n |-> raw.n]

Num(n) == [present |-> TRUE, n |-> n]
NoNumber == [present |-> FALSE, n |-> 0]

\* Signatures: none, text that is no signature, or the signature of `by`
\* over the text `over`.
NoSignature == [kind |-> "none", by |-> << >>, over |-> << >>]
BrokenSignature == [kind |-> "malformed", by |-> << >>, over |-> << >>]
Signed(by, over) == [kind |-> "signed", by |-> by, over |-> over]

\* "0x9F00000000000000000000000000000000000009"
UNRELATED_ADDRESS ==
    << 48, 120, 57, 70, 48, 48, 48, 48, 48, 48, 48, 48, 48, 48, 48, 48,
       48, 48, 48, 48, 48, 48, 48, 48, 48, 48, 48, 48, 48, 48, 48,
       48, 48, 48, 48, 48, 48, 48, 48, 48, 48, 57 >>

\* ethers verifyMessage(message, signature): throws for a text that is no
\* signature, else recovers the signer of `message`: the address that signed
\* when the signature was made over this message, an unrelated one otherwise.
verifyMessage(message, signature) ==
    IF signature.kind # "signed" THEN [throws |-> TRUE, address |-> << >>]
    ELSE IF signature.over = message THEN [throws |-> FALSE, address |-> signature.by]
    ELSE [throws |-> FALSE, address |-> UNRELATED_ADDRESS]

bad(msg, status) == [ok |-> FALSE, status |-> status, error |-> msg]
okResponse == [ok |-> TRUE, status |-> 200, error |-> "none"]
NoResponse == [ok |-> FALSE, status |-> 0, error |-> "none"]

\* The message shape check (lines 79-84).
messageShape(message, dailyId, points, lvl, nonce) ==
    IF ~startsWith(message, BRICKBREAKER_DAILY_ \o dailyId) THEN "bad message prefix"
    ELSE IF \/ ~includes(message, SCORE_ \o numberText(points))
            \/ ~includes(message, LEVEL_ \o numberText(lvl))
            \/ ~includes(message, NONCE_ \o nonce)
         THEN "bad message body"
    ELSE "ok"

signer_NotCompared(recovered, address) == TRUE

\* recovered === address (line 101)
signer(recovered, address) == recovered = address

\* The fields POST reads from the body (lines 59-67).
fieldsOf(body) ==
    [dailyId |-> body.dailyId,
     address |-> toLowerCase(body.address),
     score |-> NumberOf(body.score),
     level |-> NumberOf(body.level),
     mode |-> IF body.mode = "" THEN "daily" ELSE body.mode,
     message |-> body.message,
     signature |-> body.signature,
     nonce |-> body.nonce]

\* POST from its start to the answer of the nonce select and the signature
\* check (lines 52-101): the response it returns, NoResponse when it goes on
\* to insert the nonce.  `nonces` is the table at the time of the select.
postChecks(body, nonces) ==
    LET f == fieldsOf(body)
        shape == messageShape(f.message, f.dailyId, f.score.n, f.level.n, f.nonce)
        recovered == verifyMessage(f.message, f.signature)
    IN  IF f.dailyId = << >> THEN bad("dailyId required", 400)
        ELSE IF ~safeDailyId(f.dailyId) THEN bad("invalid dailyId format", 400)
        ELSE IF f.address = << >> \/ ~startsWith(f.address, << 48, 120 >>)
                  \/ Len(f.address) < 10
             THEN bad("address required", 400)
        ELSE IF ~f.score.finite \/ f.score.n < 0 \/ f.score.n > MAX_SCORE
             THEN bad("invalid score", 400)
        ELSE IF ~f.level.finite \/ f.level.n < 1 \/ f.level.n > 999
             THEN bad("invalid level", 400)
        ELSE IF f.mode # "daily" THEN bad("only daily allowed", 400)
        ELSE IF f.message = << >> \/ f.signature.kind = "none" \/ f.nonce = << >>
             THEN bad("message/signature/nonce required", 400)
        ELSE IF shape # "ok" THEN bad(shape, 401)
        ELSE IF \E i \in 1..Len(nonces) : nonces[i].nonce = f.nonce
             THEN bad("nonce already used", 409)
        ELSE IF recovered.throws THEN bad("invalid signature", 401)
        ELSE IF ~signer(toLowerCase(recovered.address), f.address)
             THEN bad("signature address mismatch", 401)
        ELSE NoResponse

\* The rows of bb_scores the queries of POST select (daily_id, address, mode).
matching(scores, f) ==
    {i \in 1..Len(scores) : /\ scores[i].daily_id = f.dailyId
                            /\ scores[i].address = f.address
                            /\ scores[i].mode = f.mode}

\* isBetter (lines 130-132)
isBetter(points, lvl, prevScore, prevLevel) ==
    points > prevScore \/ (points = prevScore /\ lvl > prevLevel)
\* "2025-01-09"
DAY_9 ==
    << 50, 48, 50, 53, 45, 48, 49, 45, 48, 57 >>
\* "2025-01-08"
DAY_8 ==
    << 50, 48, 50, 53, 45, 48, 49, 45, 48, 56 >>
\* "2025-1-9"
DAY_SHORT ==
    << 50, 48, 50, 53, 45, 49, 45, 57 >>
\* "0xAbCdEf0000000000000000000000000000000001"
PLAYER ==
    << 48, 120, 65, 98, 67, 100, 69, 102, 48, 48, 48, 48, 48, 48, 48, 48,
       48, 48, 48, 48, 48, 48, 48, 48, 48, 48, 48, 48, 48, 48, 48,
       48, 48, 48, 48, 48, 48, 48, 48, 48, 48, 49 >>
\* "0xabcdef0000000000000000000000000000000001"
PLAYER_LOWER ==
    << 48, 120, 97, 98, 99, 100, 101, 102, 48, 48, 48, 48, 48, 48, 48,
       48, 48, 48, 48, 48, 48, 48, 48, 48, 48, 48, 48, 48, 48, 48,
       48, 48, 48, 48, 48, 48, 48, 48, 48, 48, 48, 49 >>
\* "abcdef0000000000000000000000000000000001"
NO_PREFIX_ADDRESS ==
    << 97, 98, 99, 100, 101, 102, 48, 48, 48, 48, 48, 48, 48, 48, 48, 48,
       48, 48, 48, 48, 48, 48, 48, 48, 48, 48, 48, 48, 48, 48, 48,
       48, 48, 48, 48, 48, 48, 48, 48, 49 >>
\* "0xabcdef"
SHORT_ADDRESS ==
    << 48, 120, 97, 98, 99, 100, 101, 102 >>
\* "k0"
NONCE_0 ==
    << 107, 48 >>
\* "k1"
NONCE_1 ==
    << 107, 49 >>
\* "k2"
NONCE_2 ==
    << 107, 50 >>
\* "k12"
NONCE_12 ==
    << 107, 49, 50 >>

\* The body submitRemoteScore posts for a score, a level and a nonce, signed
\* by the player's wallet.
clientBody(finalScore, finalLevel, nonce) ==
    LET msg == canonicalMessage(DAY_9, finalScore, finalLevel, nonce)
    IN  [dailyId |-> DAY_9, address |-> PLAYER, score |-> Num(finalScore),
         level |-> Num(finalLevel), mode |-> "daily", message |-> msg,
         signature |-> Signed(PLAYER, msg), nonce |-> nonce]

GoodBodies ==
    {clientBody(50, 1, NONCE_1), clientBody(100, 1, NONCE_2),
     clientBody(50, 2, NONCE_2)}

\* Bodies that differ from a client's body in one field.
OneFieldOff ==
    LET b == clientBody(50, 1, NONCE_1)
    IN  {[b EXCEPT !.dailyId = << >>],
         [b EXCEPT !.dailyId = DAY_SHORT],
         [b EXCEPT !.address = << >>],
         [b EXCEPT !.address = NO_PREFIX_ADDRESS],
         [b EXCEPT !.address = SHORT_ADDRESS],
         [b EXCEPT !.address = UNRELATED_ADDRESS],
         [b EXCEPT !.score = NoNumber],
         [b EXCEPT !.score = Num(-1)],
         [b EXCEPT !.score = Num(MAX_SCORE + 1)],
         [b EXCEPT !.level = NoNumber],
         [b EXCEPT !.level = Num(0)],
         [b EXCEPT !.level = Num(1000)],
         [b EXCEPT !.mode = "weekly"],
         [b EXCEPT !.message = << >>],
         [b EXCEPT !.signature = NoSignature],
         [b EXCEPT !.nonce = << >>],
         [b EXCEPT !.message = canonicalMessage(DAY_8, 50, 1, NONCE_1)],
         [b EXCEPT !.message = canonicalMessage(DAY_9, 60, 1, NONCE_1)],
         [b EXCEPT !.signature = BrokenSignature],
         [b EXCEPT !.signature = Signed(UNRELATED_ADDRESS, b.message)],
         [b EXCEPT !.signature = Signed(PLAYER, canonicalMessage(DAY_9, 50, 1, NONCE_2))]}

\* Bodies whose message the player signed for other values than the fields
\* say: score 500 for a body of score 50, nonce k12 for a body of nonce k1.
OtherMessage ==
    LET b == clientBody(50, 1, NONCE_1)
        m500 == canonicalMessage(DAY_9, 500, 1, NONCE_1)
        m12 == canonicalMessage(DAY_9, 50, 1, NONCE_12)
    IN  {[b EXCEPT !.message = m500, !.signature = Signed(PLAYER, m500)],
         [b EXCEPT !.message = m12, !.signature = Signed(PLAYER, m12)]}

Bodies == GoodBodies \cup OneFieldOff \cup OtherMessage

scoreRow(f) ==
    [daily_id |-> f.dailyId, address |-> f.address, score |-> f.score.n,
     level |-> f.level.n, mode |-> f.mode]

SrvIdle ==
    /\ srvNonceUnique = FALSE
    /\ srvScoresUnique = FALSE
    /\ srvNonces = << >>
    /\ srvScores = << >>
    /\ srvReqs = << >>
    /\ srvOp = "none"

\* The tables before the requests of the behaviour: empty, or as one accepted
\* submission of the player (score 10, level 1, nonce k0) left them.
SrvInit ==
    /\ srvNonceUnique \in BOOLEAN
    /\ srvScoresUnique \in BOOLEAN
    /\ \/ srvNonces = << >> /\ srvScores = << >>
       \/ /\ srvNonces = << [nonce |-> NONCE_0, address |-> PLAYER_LOWER] >>
          /\ srvScores = << scoreRow(fieldsOf(clientBody(10, 1, NONCE_0))) >>
    /\ srvReqs = << >>
    /\ srvOp = "init"

SrvFrame == UNCHANGED << srvNonceUnique, srvScoresUnique, earlyVars, profVars,
                         bounceVars, boardVars, submitVars, lastVars >>

respond(i, response) ==
    srvReqs' = [srvReqs EXCEPT ![i].pc = "done", ![i].response = response]

goto(i, pc) == srvReqs' = [srvReqs EXCEPT ![i].pc = pc]

\* A request arrives and runs to its first answer or to the nonce insert.
PostArrives ==
    /\ Len(srvReqs) < MaxRequests
    /\ \E body \in Bodies :
          LET response == postChecks(body, srvNonces)
          IN  srvReqs' = Append(srvReqs,
                  [body |-> body, f |-> fieldsOf(body),
                   pc |-> IF response = NoResponse THEN "insertNonce" ELSE "done",
                   response |-> response])
    /\ srvOp' = "arrive"
    /\ UNCHANGED << srvNonces, srvScores >>
    /\ SrvFrame

\* insert({ nonce, address }) into bb_nonces (lines 104-111): a table with the
\* UNIQUE constraint answers a second row of the nonce with a duplicate error.
PostInsertNonce ==
    /\ srvOp # "none"
    /\ \E i \in 1..Len(srvReqs) :
          /\ srvReqs[i].pc = "insertNonce"
          /\ LET f == srvReqs[i].f
             IN  IF srvNonceUnique /\ \E k \in 1..Len(srvNonces) :
                                         srvNonces[k].nonce = f.nonce
                 THEN /\ respond(i, bad("nonce already used", 409))
                      /\ UNCHANGED srvNonces
                 ELSE /\ srvNonces' = Append(srvNonces,
                                         [nonce |-> f.nonce, address |-> f.address])
                      /\ goto(i, "selectExisting")
    /\ srvOp' = "insertNonce"
    /\ UNCHANGED srvScores
    /\ SrvFrame

\* The select of the existing row with maybeSingle() (lines 114-132), which is
\* an error when more than one row matches.
PostSelectExisting ==
    /\ srvOp # "none"
    /\ \E i \in 1..Len(srvReqs) :
          /\ srvReqs[i].pc = "selectExisting"
          /\ LET f == srvReqs[i].f
                 rows == matching(srvScores, f)
             IN  IF Cardinality(rows) > 1
                 THEN respond(i, bad("multiple rows", 500))
                 ELSE IF rows = {} THEN goto(i, "insertScore")
                 ELSE LET existing == srvScores[CHOOSE k \in rows : TRUE]
                      IN  IF isBetter(f.score.n, f.level.n, existing.score,
                                      existing.level)
                          THEN goto(i, "updateScore")
                          ELSE respond(i, okResponse)
    /\ srvOp' = "selectExisting"
    /\ UNCHANGED << srvNonces, srvScores >>
    /\ SrvFrame

\* The insert of the first row of the day (lines 134-147): a table with a
\* UNIQUE constraint on (daily_id, address, mode) answers a second row with
\* an error.
PostInsertScore ==
    /\ srvOp # "none"
    /\ \E i \in 1..Len(srvReqs) :
          /\ srvReqs[i].pc = "insertScore"
          /\ LET f == srvReqs[i].f
             IN  IF srvScoresUnique /\ matching(srvScores, f) # {}
                 THEN /\ respond(i, bad("duplicate key", 500))
                      /\ UNCHANGED srvScores
                 ELSE /\ srvScores' = Append(srvScores, scoreRow(f))
                      /\ respond(i, okResponse)
    /\ srvOp' = "insertScore"
    /\ UNCHANGED srvNonces
    /\ SrvFrame

\* update({ score, level }) of the rows that match (lines 148-160).
PostUpdateScore ==
    /\ srvOp # "none"
    /\ \E i \in 1..Len(srvReqs) :
          /\ srvReqs[i].pc = "updateScore"
          /\ LET f == srvReqs[i].f
                 rows == matching(srvScores, f)
             IN  /\ srvScores' = [k \in 1..Len(srvScores) |->
                                    IF k \in rows
                                    THEN [srvScores[k] EXCEPT !.score = f.score.n,
                                                              !.level = f.level.n]
                                    ELSE srvScores[k]]
                 /\ respond(i, okResponse)
    /\ srvOp' = "updateScore"
    /\ UNCHANGED srvNonces
    /\ SrvFrame

SrvNext ==
    \/ PostArrives
    \/ PostInsertNonce
    \/ PostSelectExisting
    \/ PostInsertScore
    \/ PostUpdateScore
(***************************************************************************)
(* The remote board: GET of src/app/api/leaderboard/route.ts and           *)
(* fetchRemoteLeaderboard of part_005.  A JSON object is a record, a JSON  *)
(* array is Arr(sequence), a field an object does not have reads as        *)
(* Undefined.                                                              *)
(***************************************************************************)
Undefined == [type |-> "undefined"]
Arr(items) == [type |-> "array", items |-> items]

\* json.key ?? other
getOr(json, key, other) == IF key \in DOMAIN json THEN json[key] ELSE other

isArray(v) == "type" \in DOMAIN v /\ v.type = "array"

\* The row of `rows` that orders first by score desc, created_at desc.
firstRow(rows) ==
    CHOOSE r \in rows : \A q \in rows :
       r.score > q.score \/ (r.score = q.score /\ r.created_at >= q.created_at)

RECURSIVE ordered(_)
ordered(rows) ==
    IF rows = {} THEN << >>
    ELSE << firstRow(rows) >> \o ordered(rows \ {firstRow(rows)})

\* GET (lines 20-50) for a well-formed dailyId: the rows of the day in mode
\* daily, ordered, at most `limit` of them, under the key `items`; status 500
\* when the query fails.
GET(dailyId, limitRaw, scores, queryFails) ==
    LET limit == Min(Max(limitRaw, 1), 50)
        data == ordered({r \in scores : r.daily_id = dailyId /\ r.mode = "daily"})
    IN  IF queryFails
        THEN [resOk |-> FALSE, json |-> [ok |-> FALSE, error |-> "query failed"]]
        ELSE [resOk |-> TRUE,
              json |-> [ok |-> TRUE,
                        items |-> Arr(SubSeq(data, 1, Min(limit, Len(data))))]]

\* shortAddr(addr) of a text longer than 12: a.slice(0, 6) + "…" + a.slice(-4)
shortAddr(a) ==
    IF Len(a) <= 12 THEN a
    ELSE SubSeq(a, 1, 6) \o << 8230 >> \o SubSeq(a, Len(a) - 3, Len(a))

\* The entry the map callback of fetchRemoteLeaderboard makes of a row that
\* carries numbers for score and level, at Date.now() = stamp.
entryOf(e, stamp) ==
    [name |-> shortAddr(getOr(e, "address", << >>)),
     score |-> e.score,
     level |-> getOr(e, "level", getOr(e, "lvl", Undefined)),
     t |-> getOr(e, "t", getOr(e, "createdAt", stamp))]

\* An entry of `entries` that sorts first: score desc, level desc, t desc.
firstEntry(entries) ==
    CHOOSE a \in entries : \A b \in entries :
       \/ a.score > b.score
       \/ a.score = b.score /\ a.level > b.level
       \/ a.score = b.score /\ a.level = b.level /\ a.t >= b.t

RECURSIVE ranked(_)
ranked(entries) ==
    IF entries = {} THEN << >>
    ELSE << firstEntry(entries) >> \o ranked(entries \ {firstEntry(entries)})

\* entriesRaw of a JSON object (line 307)
entriesRaw(json) ==
    getOr(json, "entries", getOr(json, "data", getOr(json, "leaderboard", Undefined)))

\* What fetchRemoteLeaderboard does with an OK response: the value it gives
\* setRemoteLb.
boardOf(json, stamp) ==
    IF ~isArray(entriesRaw(json)) THEN << >>
    ELSE LET mapped == ranked({entryOf(entriesRaw(json).items[k], stamp) :
                                  k \in 1..Len(entriesRaw(json).items)})
         IN  SubSeq(mapped, 1, Min(10, Len(mapped)))

\* Rows bb_scores can hold for the day: one per player.
DayRows ==
    {[daily_id |-> DAY_9, address |-> PLAYER_LOWER, score |-> 100, level |-> 2,
      mode |-> "daily", created_at |-> 1],
     [daily_id |-> DAY_9, address |-> UNRELATED_ADDRESS, score |-> 50, level |-> 1,
      mode |-> "daily", created_at |-> 2]}

BoardIdle ==
    /\ rbRows = {}
    /\ rbFetches = << >>
    /\ remoteLb = << >>
    /\ remoteLbErr = "null"
    /\ rbApplied = 0
    /\ rbOp = "none"

BoardInit ==
    /\ rbRows \in SUBSET DayRows
    /\ rbFetches = << >>
    /\ remoteLb = << >>
    /\ remoteLbErr = "null"
    /\ rbApplied = 0
    /\ rbOp = "init"

BoardFrame == UNCHANGED << earlyVars, profVars, bounceVars, srvVars, submitVars, lastVars >>

\* fetchRemoteLeaderboard(dailyId) is called (mount effect, refresh after a
\* submission, Refresh button): setRemoteLbErr(null), and the GET is sent.
FetchIssued ==
    /\ Len(rbFetches) < MaxFetches
    /\ \E from \in {"mount", "submit", "button"} :
          /\ (from = "mount") = (rbFetches = << >>)
          /\ rbFetches' = Append(rbFetches,
                [from |-> from, dId |-> DAY_9, state |-> "sent",
                 response |-> [resOk |-> FALSE, json |-> [ok |-> FALSE]]])
    /\ remoteLbErr' = "null"
    /\ rbOp' = "issue"
    /\ UNCHANGED << rbRows, remoteLb, rbApplied >>
    /\ BoardFrame

\* The route answers one of the requests that are under way.
GetAnswered ==
    /\ rbOp # "none"
    /\ \E i \in 1..Len(rbFetches), queryFails \in BOOLEAN :
          /\ rbFetches[i].state = "sent"
          /\ rbFetches' = [rbFetches EXCEPT
                              ![i].state = "answered",
                              ![i].response = GET(rbFetches[i].dId, 10, rbRows,
                                                  queryFails)]
    /\ rbOp' = "answer"
    /\ UNCHANGED << rbRows, remoteLb, remoteLbErr, rbApplied >>
    /\ BoardFrame

\* The response of one request reaches fetchRemoteLeaderboard's continuation
\* (lines 299-337).
ResponseArrives ==
    /\ rbOp # "none"
    /\ \E i \in 1..Len(rbFetches) :
          /\ rbFetches[i].state = "answered"
          /\ rbFetches' = [rbFetches EXCEPT ![i].state = "done"]
          /\ IF ~rbFetches[i].response.resOk
             THEN /\ remoteLbErr' = rbFetches[i].response.json.error
                  /\ UNCHANGED << remoteLb, rbApplied >>
             ELSE /\ remoteLb' = boardOf(rbFetches[i].response.json, i)
                  /\ rbApplied' = i
                  /\ UNCHANGED remoteLbErr
    /\ rbOp' = "response"
    /\ UNCHANGED rbRows
    /\ BoardFrame

\* A submission is accepted by the service: bb_scores gains the row.
RowStored ==
    /\ rbOp # "none"
    /\ \E r \in DayRows \ rbRows : rbRows' = rbRows \cup {r}
    /\ rbOp' = "row"
    /\ UNCHANGED << rbFetches, remoteLb, remoteLbErr, rbApplied >>
    /\ BoardFrame

BoardNext ==
    \/ FetchIssued
    \/ GetAnswered
    \/ ResponseArrives
    \/ RowStored
(***************************************************************************)
(* part_005: what becomes of the promise commitLeaderboardIfNeeded makes,  *)
(*   submitRemoteScore(finalScore, finalLevel)                             *)
(*     .then(() => fetchRemoteLeaderboard(dailyId).catch(() => {}))        *)
(*     .catch(() => {}),                                                   *)
(* while the game goes on.  remoteSubmits counts the calls.                *)
(***************************************************************************)
SubmitIdle ==
    /\ sbSigned = 0
    /\ sbPosted = 0
    /\ sbAnswered = 0
    /\ sbRefreshes = 0

catchNothing_UndoLocal(s) ==
    [s EXCEPT !.lbSaves = @ - 1, !.lastCommitKeyRef = ""]

\* .catch(() => {}) of the daily variant's state
catchNothing(s) == s

SubmitFrame == UNCHANGED << appVars, loadVars, genVars, streakVars, profVars,
                            bounceVars, srvVars, boardVars, lastVars >>

\* await signMessageCompat(msg) settles (lines 278-293, 346-347): no
\* window.ethereum, no account, the wallet rejects the request (it throws),
\* no signature, or { address, signature }, after which the POST is sent.
SignSettles ==
    /\ sbSigned < remoteSubmits
    /\ sbSigned' = sbSigned + 1
    /\ \E outcome \in {"no provider", "no account", "rejected", "no signature",
                       "signed"} :
          IF outcome = "signed"
          THEN sbPosted' = sbPosted + 1 /\ UNCHANGED dailyVars
          ELSE UNCHANGED sbPosted /\ DailyAssign(catchNothing(D))
    /\ UNCHANGED << sbAnswered, sbRefreshes >>
    /\ SubmitFrame

\* await fetch("/api/leaderboard", POST) settles (lines 349-370): the network
\* fails, the response is not OK, or it is OK and the .then calls
\* fetchRemoteLeaderboard.
PostSettles ==
    /\ sbAnswered < sbPosted
    /\ sbAnswered' = sbAnswered + 1
    /\ \E outcome \in {"network error", "not ok", "ok"} :
          IF outcome = "ok"
          THEN sbRefreshes' = sbRefreshes + 1 /\ UNCHANGED dailyVars
          ELSE UNCHANGED sbRefreshes /\ DailyAssign(catchNothing(D))
    /\ UNCHANGED << sbSigned, sbPosted >>
    /\ SubmitFrame

SubmitNext ==
    \/ SignSettles
    \/ PostSettles
(***************************************************************************)
(* part_005: the local leaderboard of the day, localStorage under          *)
(* keyLeaderboard().  An entry is { name, score, level, t }; the stored    *)
(* value is absent, a text JSON.parse throws on, the JSON of something     *)
(* that is no array, or the JSON of an array of entries.                   *)
(***************************************************************************)
LB_KEEP == 10

\* (a, b) => b.score - a.score || b.level - a.level || b.t - a.t
compareEntries_ScoreOnly(a, b) == b.score - a.score

compareEntries(a, b) ==
    IF b.score - a.score # 0 THEN b.score - a.score
    ELSE IF b.level - a.level # 0 THEN b.level - a.level
    ELSE b.t - a.t

\* Array.prototype.sort with that comparator: a stable sort, so an element
\* goes behind every element it does not come before.
insertSorted(arr, e) ==
    LET behind == {i \in 1..Len(arr) : compareEntries(e, arr[i]) < 0}
        at == IF behind = {} THEN Len(arr) + 1
              ELSE CHOOSE i \in behind : \A j \in behind : i <= j
    IN SubSeq(arr, 1, at - 1) \o << e >> \o SubSeq(arr, at, Len(arr))

RECURSIVE sortFrom(_, _, _)
sortFrom(arr, n, done) ==
    IF n > Len(arr) THEN done
    ELSE sortFrom(arr, n + 1, insertSorted(done, arr[n]))

sortEntries(arr) == sortFrom(arr, 1, << >>)

slice(arr, n) == SubSeq(arr, 1, Min(Len(arr), n))

NoBoard == [kind |-> "absent", items |-> << >>]
StoredBoard(arr) == [kind |-> "array", items |-> arr]

\* raw ? JSON.parse(raw) : [] in its try, catch { arr = [] }, then
\* Array.isArray(arr) ? arr : []
parseBoard(raw) ==
    IF raw.kind = "array" THEN raw.items ELSE << >>

saveLeaderboard(raw, entry) ==
    StoredBoard(slice(sortEntries(Append(parseBoard(raw), entry)), LB_KEEP))

\* The boards a player has after n committed matches: scores and levels
\* rise and fall from match to match, the clock goes on.
SeedEntry(n) ==
    [name |-> "0xab...cdef", score |-> 10 * ((n * 3) % 4), level |-> 1 + (n % 2),
     t |-> n]

RECURSIVE BoardAfter(_)
BoardAfter(n) ==
    IF n = 0 THEN NoBoard ELSE saveLeaderboard(BoardAfter(n - 1), SeedEntry(n))

StoredBoards ==
    {BoardAfter(n) : n \in 0..LB_KEEP}
      \cup {[kind |-> "malformed", items |-> << >>],
            [kind |-> "object", items |-> << >>]}

NoEntry == [name |-> "", score |-> 0, level |-> 0, t |-> 0]

LocalIdle ==
    /\ lsRaw = NoBoard
    /\ lsLb = << >>
    /\ lsNow = 0
    /\ lsBefore = << >>
    /\ lsEntry = NoEntry
    /\ lsSaves = 0

\* The page is opened on a stored value; the load effect (lines 391-401)
\* puts its entries in lb.
LocalInit ==
    /\ lsRaw \in StoredBoards
    /\ lsLb = parseBoard(lsRaw)
    /\ lsNow = LB_KEEP
    /\ lsBefore = << >>
    /\ lsEntry = NoEntry
    /\ lsSaves = 0

LocalFrame == UNCHANGED << earlyVars, profVars, bounceVars, srvVars, boardVars,
                           submitVars, storedVars, dropVars, comboVars,
        finalVars >>

\* commitLeaderboardIfNeeded builds its entry with t: Date.now() and calls
\* saveLeaderboard(entry); two commits can fall in one millisecond.
SaveLeaderboard ==
    /\ lsSaves < MaxSaves
    /\ \E points \in {0, 10, 30}, lvl \in {1, 2}, passed \in {0, 1} :
          LET entry == [name |-> "0xab...cdef", score |-> points, level |-> lvl,
                        t |-> lsNow + passed]
          IN /\ lsNow' = lsNow + passed
             /\ lsBefore' = parseBoard(lsRaw)
             /\ lsEntry' = entry
             /\ lsRaw' = saveLeaderboard(lsRaw, entry)
             /\ lsLb' = saveLeaderboard(lsRaw, entry).items
    /\ lsSaves' = lsSaves + 1
    /\ LocalFrame

LocalNext == SaveLeaderboard
(***************************************************************************)
(* Phase-2 app: StorageStore.loadAttempts and loadProfile on whatever      *)
(* localStorage holds.  An item is absent, the empty text, a text          *)
(* JSON.parse throws on, or the JSON of a value; a value has a type and,   *)
(* when it is an object, the fields the two functions read.  A field is    *)
(* undefined, null, a number, a text, an array (of skin ids) or an object. *)
(* A date key is the number of its day, 0 for a text that is none; the     *)
(* fields of a profile that loadProfile only copies (playerId,             *)
(* bestScoreAllTime, streakDays, lastPlayDateKey) go together as `others`. *)
(***************************************************************************)
Undef == [type |-> "undefined", num |-> 0, str |-> "", set |-> {}]
NullField == [type |-> "null", num |-> 0, str |-> "", set |-> {}]
NumberField(n) == [type |-> "number", num |-> n, str |-> "", set |-> {}]
Text(s, n) == [type |-> "string", num |-> n, str |-> s, set |-> {}]
Array(s) == [type |-> "array", num |-> 0, str |-> "", set |-> s]
ObjectField == [type |-> "object", num |-> 0, str |-> "", set |-> {}]

NoFields ==
    [dateKey |-> Undef, left |-> Undef, xp |-> Undef, unlockedSkins |-> Undef,
     selectedSkin |-> Undef, others |-> Undef]

Value(type, n, s) == [type |-> type, num |-> n, str |-> s, fields |-> NoFields]
Object(fields) == [type |-> "object", num |-> 0, str |-> "", fields |-> fields]

Absent == [kind |-> "absent", value |-> Value("null", 0, "")]
EmptyText == [kind |-> "empty", value |-> Value("null", 0, "")]
Malformed == [kind |-> "malformed", value |-> Value("null", 0, "")]
Json(v) == [kind |-> "json", value |-> v]

\* safeJsonParse(raw, fallback): the fallback for null and "" (!raw) and when
\* JSON.parse throws, else the parsed value, whatever it is.
safeJsonParse(raw, fallback) ==
    IF raw.kind = "json" THEN raw.value ELSE fallback

\* v.name for a value that is not null: the field of an object, undefined on
\* a boolean, a number, a text or an array.
get(v, name) == IF v.type = "object" THEN v.fields[name] ELSE Undef

\* !v
falsy(v) ==
    \/ v.type \in {"null", "false"}
    \/ v.type = "number" /\ v.num = 0
    \/ v.type = "string" /\ v.str = ""

\* The abstract stored record of loadAttempts for a value that is not null.
recordOf(v) ==
    LET dk == get(v, "dateKey")
        left == get(v, "left")
    IN [present |-> TRUE,
        dateKey |-> IF dk.type = "string" THEN dk.num ELSE 0,
        leftIsNumber |-> left.type = "number",
        left |-> IF left.type = "number" THEN left.num ELSE 0]

NoAttempts == [dateKey |-> 0, left |-> 0]
NoReturn ==
    [xp |-> Undef, playerLevel |-> 0, unlockedSkins |-> Undef,
     selectedSkin |-> Undef, others |-> Undef]

\* StorageStore.loadAttempts() on the item: raw.dateKey on null is a
\* TypeError nothing catches.
loadAttemptsFrom(t, item) ==
    LET raw == safeJsonParse(item, Object(NoFields))
    IN IF raw.type = "null"
       THEN [threw |-> TRUE, ret |-> NoAttempts, persisted |-> NoAttempts,
             wrote |-> FALSE]
       ELSE LET r == loadAttempts(t, recordOf(raw))
            IN [threw |-> FALSE, ret |-> r.ret,
                persisted |-> [dateKey |-> r.stored.dateKey, left |-> r.stored.left],
                wrote |-> r.stored # recordOf(raw)]

\* computePlayerLevel(xp) for whatever p.xp is: `remaining < need` is false
\* for NaN (undefined, a text that is no number, an object), so the loop
\* runs to 60; null counts as 0.
levelOf(xp) ==
    CASE xp.type = "number" -> computePlayerLevel(xp.num)
      [] xp.type = "null" -> computePlayerLevel(0)
      [] xp.type = "array" -> computePlayerLevel(0)
      [] OTHER -> 60

newProfile ==
    [xp |-> NumberField(0), playerLevel |-> 1, unlockedSkins |-> Array({"neon"}),
     selectedSkin |-> Text("neon", 0), others |-> Text("valid", 0)]

\* StorageStore.loadProfile() on the item.  new Set(x) throws a TypeError for
\* an x that is not iterable (a number, an object); a text is iterated by
\* its characters.
loadProfileFrom(item) ==
    LET p == safeJsonParse(item, Value("null", 0, ""))
    IN IF falsy(p)
       THEN [threw |-> FALSE, ret |-> newProfile, persisted |-> newProfile,
             wrote |-> TRUE]
       ELSE LET lvl == levelOf(get(p, "xp"))
                given == get(p, "unlockedSkins")
                unlocks == (IF given.type = "array" THEN given.set
                            ELSE IF given.type = "string" THEN {"chars"}
                            ELSE {"neon"})
                             \cup {sid \in SkinIds : lvl >= unlockLevel(sid)}
                sel == get(p, "selectedSkin")
                fixed == [xp |-> get(p, "xp"), playerLevel |-> lvl,
                          unlockedSkins |-> Array(unlocks),
                          selectedSkin |->
                              IF sel.type = "string" /\ sel.str \in unlocks
                              THEN sel ELSE Text("neon", 0),
                          others |-> get(p, "others")]
            IN IF given.type \in {"number", "object"}
               THEN [threw |-> TRUE, ret |-> NoReturn, persisted |-> NoReturn,
                     wrote |-> FALSE]
               ELSE [threw |-> FALSE, ret |-> fixed, persisted |-> fixed,
                     wrote |-> TRUE]

\* The values an item can hold.
PlainValues ==
    {Value("null", 0, ""), Value("false", 0, ""), Value("number", 0, ""),
     Value("number", 5, ""), Value("string", 0, ""), Value("string", 0, "x"),
     Value("array", 0, "")}

AttemptsObjects ==
    {Object([NoFields EXCEPT !.dateKey = dk, !.left = left]) :
        dk \in {Undef, NumberField(1)} \cup {Text("key", d) : d \in 0..MaxDay},
        left \in {Undef, Text("2", 0)} \cup {NumberField(n) : n \in (-1)..MaxRawLeft}}

ProfileObjects ==
    {Object([NoFields EXCEPT !.xp = xp, !.unlockedSkins = skins,
                             !.selectedSkin = sel, !.others = rest]) :
        xp \in {Undef, NullField, NumberField(0), NumberField(700), Text("lots", 0)},
        skins \in {Undef, NullField, NumberField(3), Text("neon", 0), ObjectField,
                   Array({"neon"}), Array({"neon", "gold"})},
        sel \in {Undef, Text("neon", 0), Text("plasma", 0), Text("gold", 0)},
        rest \in {Undef, Text("valid", 0)}}

Items(values) == {Absent, EmptyText, Malformed} \cup {Json(v) : v \in values}

NoOut == [threw |-> FALSE, wrote |-> FALSE]

StoredIdle ==
    /\ skKey = "none"
    /\ skToday = 1
    /\ skItem = Absent
    /\ skOut = NoOut
    /\ skDone = FALSE

StoredInit ==
    /\ skKey \in {"attempts", "profile"}
    /\ skToday \in Days
    /\ skItem \in IF skKey = "attempts"
                  THEN Items(PlainValues \cup AttemptsObjects)
                  ELSE Items(PlainValues \cup ProfileObjects)
    /\ skOut = NoOut
    /\ skDone = FALSE

StoredFrame == UNCHANGED << skKey, skToday, skItem, earlyVars, profVars,
                            bounceVars, srvVars, boardVars, submitVars,
                            localVars, dropVars, comboVars,
        finalVars >>

LoadAttemptsFrom ==
    /\ skKey = "attempts" /\ ~skDone
    /\ skOut' = loadAttemptsFrom(skToday, skItem)
    /\ skDone' = TRUE
    /\ StoredFrame

LoadProfileFrom ==
    /\ skKey = "profile" /\ ~skDone
    /\ skOut' = loadProfileFrom(skItem)
    /\ skDone' = TRUE
    /\ StoredFrame

StoredNext ==
    \/ LoadAttemptsFrom
    \/ LoadProfileFrom
(***************************************************************************)
(* The falling power-ups of both programs, each with its place: stepDrops  *)
(* of part_005 and the power-up loop of GameEngine.step.  Lengths are in   *)
(* 1/10 px.  A drop carries a number that tells it from the others (the    *)
(* object's identity in part_005, id in the engine).                       *)
(***************************************************************************)
DROP_SIZE == 120            \* size: 12
DROP_BOTTOM == GAME_H * 10 + 300
ENGINE_CH == 6400           \* ch for cw = 420: Math.round(420 * (640 / 420))
ENGINE_R == 100             \* r: 10
POWERUP_FALL_SPEED == 23    \* 2.3 px a step

DropIds == 1..MaxDrops

dailyPaddle(x, w) ==
    [left |-> x - w \div 2, top |-> (GAME_H - 54) * 10, w |-> w, h |-> PADDLE_H * 10]

caughtDrop_StaysAlive(d) == d

\* d.alive = false of the caught drop
caughtDrop(d) == [d EXCEPT !.alive = FALSE]

\* The body of `for (const d of drops)` for drops[k], the frame lasting dt
\* (d.vy * dt = moved).
dropBody(st, k, p, moved) ==
    LET d == st.drops[k]
    IN IF ~d.alive THEN st
       ELSE LET fallen == [d EXCEPT !.y = @ + moved]
                hit == circleRectCollide(fallen.x, fallen.y, DROP_SIZE,
                                         p.left, p.top, p.w, p.h)
                d1 == IF hit THEN caughtDrop(fallen) ELSE fallen
                d2 == IF d1.y > DROP_BOTTOM THEN [d1 EXCEPT !.alive = FALSE] ELSE d1
            IN [drops |-> [st.drops EXCEPT ![k] = d2],
                applied |-> IF hit THEN [st.applied EXCEPT ![d.id] = @ + 1]
                            ELSE st.applied]

RECURSIVE dropLoop(_, _, _, _)
dropLoop(st, k, p, moved) ==
    IF k > Len(st.drops) THEN st
    ELSE dropLoop(dropBody(st, k, p, moved), k + 1, p, moved)

\* stepDrops(dt), then dropsRef.current = drops.filter((d) => d.alive)
stepDropsAt(drops, applied, p, moved) ==
    LET st == dropLoop([drops |-> drops, applied |-> applied], 1, p, moved)
    IN [after |-> st.drops,
        drops |-> SelectSeq(st.drops, LAMBDA d : d.alive),
        applied |-> st.applied]

\* this.powerUps.splice(i, 1)
splice(arr, i) == SubSeq(arr, 1, i - 1) \o SubSeq(arr, i + 1, Len(arr))

\* applyPowerUp(type) for the paddle: "wide" makes it
\* Math.min(cw * 0.42, paddleW * 1.35).
widened(w, type) ==
    IF type = "wide" THEN Min((CanvasWidth * 42) \div 10, (w * 135) \div 100) ELSE w

\* The body of `for (let i = this.powerUps.length - 1; i >= 0; i--)`; st.w is
\* this.paddleW, st.after collects the power-ups as the loop left them.
powerUpBody(st, i, x) ==
    LET pu == [st.drops[i] EXCEPT !.y = @ + POWERUP_FALL_SPEED]
        caughtNow == /\ pu.x >= x - ENGINE_R
                     /\ pu.x <= x + st.w + ENGINE_R
                     /\ pu.y + ENGINE_R >= ENGINE_CH - 440
                     /\ pu.y - ENGINE_R <= ENGINE_CH - 440 + 140
        moved == [st.drops EXCEPT ![i] = pu]
    IN IF caughtNow
       THEN [drops |-> splice(moved, i), w |-> widened(st.w, pu.type),
             applied |-> [st.applied EXCEPT ![pu.id] = @ + 1],
             after |-> Append(st.after, pu)]
       ELSE IF pu.y - ENGINE_R > ENGINE_CH
       THEN [st EXCEPT !.drops = splice(moved, i), !.after = Append(@, pu)]
       ELSE [st EXCEPT !.drops = moved, !.after = Append(@, pu)]

RECURSIVE powerUpLoop(_, _, _)
powerUpLoop(st, i, x) ==
    IF i < 1 THEN st ELSE powerUpLoop(powerUpBody(st, i, x), i - 1, x)

stepPowerUpsAt(drops, applied, x, w) ==
    powerUpLoop([drops |-> drops, w |-> w, applied |-> applied, after |-> << >>],
                Len(drops), x)

NoneApplied == [id \in DropIds |-> 0]

DropIdle ==
    /\ dpProgram = "none"
    /\ dpDrops = << >>
    /\ dpPaddleX = 0
    /\ dpPaddleW = 0
    /\ dpApplied = NoneApplied
    /\ dpLeftAt = NoneApplied

\* Drops on their way down, as a frame finds them: over the middle, near the
\* left wall or near the right wall, the second a little above the first.
FallingDrops(types, height) ==
    {<< [id |-> 1, type |-> t1, x |-> x1, y |-> height, alive |-> TRUE] >> :
        t1 \in types, x1 \in {400, 1800}}
    \cup
    {<< [id |-> 1, type |-> t1, x |-> x1, y |-> height, alive |-> TRUE],
        [id |-> 2, type |-> t2, x |-> x2, y |-> height - gap, alive |-> TRUE] >> :
        t1 \in types, t2 \in types, x1 \in {400, 1800}, x2 \in {1800, 3300},
        gap \in {150}}

DropInit ==
    /\ dpProgram \in {"daily", "engine"}
    /\ dpDrops \in IF dpProgram = "daily"
                   THEN FallingDrops({"widen", "multiball"}, 4400)
                   ELSE FallingDrops({"wide", "slow"}, 5750)
    /\ dpPaddleX = IF dpProgram = "daily" THEN 1800 ELSE 1620
    /\ dpPaddleW = IF dpProgram = "daily" THEN 920 ELSE 960
    /\ dpApplied = NoneApplied
    /\ dpLeftAt = NoneApplied

DropFrame == UNCHANGED << dpProgram, earlyVars, profVars, bounceVars, srvVars,
                          boardVars, submitVars, localVars, storedVars, comboVars,
        finalVars >>

leftAt(before, listedNow, after) ==
    [id \in DropIds |->
        IF /\ \E k \in 1..Len(before) : before[k].id = id
           /\ ~\E k \in 1..Len(listedNow) : listedNow[k].id = id
        THEN (CHOOSE d \in {after[k] : k \in 1..Len(after)} : d.id = id).y
        ELSE dpLeftAt[id]]

\* A frame of part_005 with drops: the pointer has put the paddle somewhere,
\* the frame lasted 20 or 30 ms.
StepDrops ==
    /\ dpProgram = "daily" /\ dpDrops # << >>
    /\ \E x \in {460, 1800, 3140}, moved \in {22, 33} :
          LET r == stepDropsAt(dpDrops, dpApplied, dailyPaddle(x, dpPaddleW), moved)
          IN /\ dpPaddleX' = x
             /\ dpDrops' = r.drops
             /\ dpApplied' = r.applied
             /\ dpLeftAt' = leftAt(dpDrops, r.drops, r.after)
    /\ UNCHANGED dpPaddleW
    /\ DropFrame

\* A step of the engine with power-ups: the paddle has been moved somewhere.
StepPowerUps ==
    /\ dpProgram = "engine" /\ dpDrops # << >>
    /\ \E x \in {0, 1620, CanvasWidth * 10 - dpPaddleW} :
          LET r == stepPowerUpsAt(dpDrops, dpApplied, x, dpPaddleW)
          IN /\ dpPaddleX' = x
             /\ dpPaddleW' = r.w
             /\ dpDrops' = r.drops
             /\ dpApplied' = r.applied
             /\ dpLeftAt' = leftAt(dpDrops, r.drops, r.after)
    /\ DropFrame

DropNext ==
    \/ StepDrops
    \/ StepPowerUps
(***************************************************************************)
(* GameEngine.step: the combo counter and the score of the brick hits,     *)
(* with the times of the hits.                                             *)
(***************************************************************************)
COMBO_WINDOW == 1200

withinWindow_Always(t, last) == TRUE

\* now - this.lastHitAt < 1200
withinWindow(t, last) == t - last < COMBO_WINDOW

\* Lines 850-881 for a brick of the given hp hit at the time t: combo,
\* lastHitAt, score, and what the hit gained.
hitAt(st, t, hp, isBoss) ==
    LET c == IF withinWindow(t, st.lastHitAt) THEN st.combo + 1 ELSE 1
        left == hp - 1
        gained == IF left <= 0
                  THEN (IF isBoss THEN 120 ELSE 10) + comboBonus(c)
                  ELSE IF isBoss THEN 8 ELSE 3
    IN [combo |-> c, lastHitAt |-> t, score |-> st.score + gained,
        gained |-> gained, destroyed |-> left <= 0]

NoHit == [before |-> 0, since |-> 0, gained |-> 0, destroyed |-> FALSE]

ComboIdle ==
    /\ cmBoss = FALSE
    /\ cmNow = 0
    /\ cmLastHitAt = 0
    /\ cmCombo = 0
    /\ cmScore = 0
    /\ cmHit = NoHit
    /\ cmHits = 0

\* The engine after start() (reset() has put combo and lastHitAt to 0) and n
\* quick hits, each destroying a brick of hp 1, the first at the time t0.
RECURSIVE afterRun(_, _)
afterRun(n, t0) ==
    IF n = 0 THEN [combo |-> 0, lastHitAt |-> 0, score |-> 0]
    ELSE hitAt(afterRun(n - 1, t0), t0 + 600 * (n - 1), 1, FALSE)

\* The page has been open for a moment or for a while; a match has begun,
\* or is ten quick destructions on.
ComboInit ==
    /\ cmBoss \in BOOLEAN
    /\ \E t0 \in {300, 5000}, n \in IF cmBoss THEN {0} ELSE {0, 10} :
          LET st == afterRun(n, t0)
          IN /\ cmNow = IF n = 0 THEN t0 ELSE st.lastHitAt
             /\ cmLastHitAt = st.lastHitAt
             /\ cmCombo = st.combo
             /\ cmScore = st.score
    /\ cmHit = NoHit
    /\ cmHits = 0

ComboFrame == UNCHANGED << cmBoss, earlyVars, profVars, bounceVars, srvVars,
                           boardVars, submitVars, localVars, storedVars, dropVars,
        finalVars >>

\* A step whose ball meets a brick, `passed` ms after the step before it
\* that met one; the destruction of the boss brick ends the match.
BrickHit ==
    /\ cmHits < MaxHits
    /\ ~(cmBoss /\ cmHit.destroyed)
    /\ \E passed \in {600, COMBO_WINDOW - 1, COMBO_WINDOW},
          hp \in {1, 2} :
          LET t == cmNow + passed
              r == hitAt([combo |-> cmCombo, lastHitAt |-> cmLastHitAt,
                          score |-> cmScore], t, hp, cmBoss)
          IN /\ cmNow' = t
             /\ cmCombo' = r.combo
             /\ cmLastHitAt' = r.lastHitAt
             /\ cmScore' = r.score
             /\ cmHit' = [before |-> cmCombo, since |-> t - cmLastHitAt,
                          gained |-> r.gained, destroyed |-> r.destroyed]
    /\ cmHits' = cmHits + 1
    /\ ComboFrame

ComboNext == BrickHit
(***************************************************************************)
(* part_005: what a win commits.  stepGame queues setScore((s) => s + 10)  *)
(* for each destroyed brick and, in the same call, reads scoreRef.current  *)
(* when no brick is left; the effect that copies score to scoreRef runs    *)
(* after the next render.                                                  *)
(***************************************************************************)
BRICK_POINTS == 10

\* maybeUpdateDailyBest(finalScore): the new value of todayBest
maybeUpdateDailyBest(best, practice, finalScore) ==
    IF practice THEN best
    ELSE IF finalScore > best THEN finalScore ELSE best

\* commitLeaderboardIfNeeded(finalState): the key of the last commit and the
\* entries given to saveLeaderboard; finalScore is scoreRef.current.
commitEntry(key, entries, practice, ref, finalState) ==
    IF practice THEN [key |-> key, entries |-> entries]
    ELSE IF ~canCommitOnce(key, finalState) THEN [key |-> key, entries |-> entries]
    ELSE [key |-> finalState, entries |-> Append(entries, ref)]

\* The end of stepGame: nothing when a brick is alive, else the win.
winBlock(st) ==
    IF st.alive > 0 THEN st
    ELSE LET finalScore == st.scoreRef
             c == commitEntry(st.key, st.entries, st.practice, st.scoreRef, "win")
         IN [st EXCEPT !.todayBest = maybeUpdateDailyBest(@, st.practice, finalScore),
                       !.state = "win",
                       !.key = c.key,
                       !.entries = c.entries]

\* stepGame for a frame in which the balls destroy `hits` bricks.
stepGameHits(st, hits) ==
    winBlock([st EXCEPT !.alive = @ - hits, !.score = @ + BRICK_POINTS * hits])

CommitIdle ==
    /\ wcPractice = FALSE
    /\ wcBalls = 0
    /\ wcAlive = 0
    /\ wcState = "idle"
    /\ wcScore = 0
    /\ wcScoreRef = 0
    /\ wcTodayBest = 0
    /\ wcKey = ""
    /\ wcEntries = << >>
    /\ wcBestBefore = 0

\* A running match some frames before its end: one or two balls, a few
\* bricks left, the score of the bricks destroyed so far rendered.
CommitInit ==
    /\ wcPractice \in BOOLEAN
    /\ wcBalls \in {1, 2}
    /\ wcAlive \in 1..MaxBricksLeft
    /\ wcState = "running"
    /\ wcScore \in {0, 50}
    /\ wcScoreRef = wcScore
    /\ wcTodayBest \in {0, 40, 200}
    /\ wcKey = ""
    /\ wcEntries = << >>
    /\ wcBestBefore = wcTodayBest

CommitFixed == UNCHANGED << wcPractice, wcBalls, wcBestBefore, earlyVars, profVars,
                            bounceVars, srvVars, boardVars, submitVars, localVars,
                            storedVars, dropVars, comboVars, paddleVars, scoreVars,
        weeklyVars >>

\* One frame of the loop: each ball destroys at most one brick.
WinFrame ==
    /\ wcState = "running"
    /\ \E hits \in 0..Min(wcBalls, wcAlive) :
          LET st == stepGameHits([alive |-> wcAlive, score |-> wcScore,
                                  scoreRef |-> wcScoreRef, todayBest |-> wcTodayBest,
                                  state |-> wcState, key |-> wcKey,
                                  entries |-> wcEntries, practice |-> wcPractice],
                                 hits)
          IN /\ wcAlive' = st.alive
             /\ wcScore' = st.score
             /\ wcTodayBest' = st.todayBest
             /\ wcState' = st.state
             /\ wcKey' = st.key
             /\ wcEntries' = st.entries
    /\ UNCHANGED wcScoreRef
    /\ CommitFixed

\* The render after setScore, and its effect: scoreRef.current = score.
ScoreEffect ==
    /\ wcScoreRef # wcScore
    /\ wcScoreRef' = wcScore
    /\ UNCHANGED << wcAlive, wcScore, wcTodayBest, wcState, wcKey, wcEntries >>
    /\ CommitFixed

CommitNext == WinFrame \/ ScoreEffect
(***************************************************************************)
(* GameEngine: the paddle of a running match.  step clamps paddleX only on *)
(* its keyboard path; movePaddleTo clamps; applyPowerUp("wide") and the    *)
(* expiry of the effect write paddleW.  Lengths in 1/1000 px.              *)
(***************************************************************************)
POWERUP_R == 10000

\* hardResetWorld: Math.max(6, Math.floor(cw * 0.017))
paddleSpeed(w) == 1000 * Max(6, (w * 17) \div 1000)

\* hardResetWorld: this.paddleX = (cw - this.paddleW) / 2
hardResetPaddleX(w, levelNum) == (1000 * w - hardResetPaddleW(w, levelNum)) \div 2

\* movePaddleTo(x)
movePaddleTo(p, x) ==
    [p EXCEPT !.x = clamp(x - p.w \div 2, 0, 1000 * CanvasWidth - p.w)]

\* updateEffectsTimers for the paddle: the wide effect has run out.
wideExpired(p) ==
    [p EXCEPT !.wide = FALSE, !.w = 1000 * Max(86, (CanvasWidth * 23) \div 100)]

\* "paddle keyboard" of step
keyboardPath(p, input) ==
    IF input.pointerActive THEN p
    ELSE LET x1 == IF input.left THEN p.x - paddleSpeed(CanvasWidth) ELSE p.x
             x2 == IF input.right THEN x1 + paddleSpeed(CanvasWidth) ELSE x1
         IN  [p EXCEPT !.x = clamp(x2, 0, 1000 * CanvasWidth - p.w)]

\* The horizontal half of `caught` for a power-up at pu.x = x.
overPaddle(p, x) == x >= p.x - POWERUP_R /\ x <= p.x + p.w + POWERUP_R

\* applyPowerUp("wide")
applyWide(p) ==
    [p EXCEPT !.wide = TRUE,
              !.w = Min(CanvasWidth * 420, (p.w * 135) \div 100)]

\* step(ts) for the paddle: the timers, the keyboard path, then the power-up
\* loop, in which a wide power-up at x (0 for none) has come down to the
\* paddle's height.
stepPaddle(p, input, expires, x) ==
    LET p1 == IF expires THEN wideExpired(p) ELSE p
        p2 == keyboardPath(p1, input)
    IN  IF x # 0 /\ overPaddle(p2, x) THEN applyWide(p2) ELSE p2

NoInput == [left |-> FALSE, right |-> FALSE, pointerActive |-> FALSE]

PaddleIdle ==
    /\ pdX = 0
    /\ pdW = 0
    /\ pdWide = FALSE
    /\ pdInput = NoInput
    /\ pdOp = "none"
    /\ pdSteps = 0

\* After start() on level 1.
PaddleInit ==
    /\ pdX = hardResetPaddleX(CanvasWidth, 1)
    /\ pdW = hardResetPaddleW(CanvasWidth, 1)
    /\ pdWide = FALSE
    /\ pdInput = NoInput
    /\ pdOp = "start"
    /\ pdSteps = 0

PaddleFixed == UNCHANGED << earlyVars, profVars, bounceVars, srvVars, boardVars,
                            submitVars, localVars, storedVars, dropVars, comboVars,
                            commitVars, scoreVars,
        weeklyVars >>

PaddleSet(p, input, op) ==
    /\ pdX' = p.x
    /\ pdW' = p.w
    /\ pdWide' = p.wide
    /\ pdInput' = input
    /\ pdOp' = op
    /\ pdSteps' = IF op = "step" THEN pdSteps + 1 ELSE pdSteps
    /\ PaddleFixed

Paddle == [x |-> pdX, w |-> pdW, wide |-> pdWide]

\* Where a pointer can be (getLocalX) and where a power-up can fall.
PointerXs == {0, 210000, 419000}

PowerUpXs == {0, 60000, 210000, 400000}

\* tick: engine.step(ts) while running.
PaddleStep ==
    /\ pdSteps < MaxPaddleSteps
    /\ \E x \in PowerUpXs, expires \in BOOLEAN :
          /\ expires => pdWide
          /\ PaddleSet(stepPaddle(Paddle, pdInput, expires, x), pdInput, "step")

\* keydown / keyup of an arrow key
PaddleKey ==
    /\ pdOp # "key"
    /\ \E left, right \in BOOLEAN :
          /\ ~(left /\ right)
          /\ PaddleSet(Paddle, [pdInput EXCEPT !.left = left, !.right = right], "key")

\* pointerdown: pointerActive = true, movePaddleTo
PaddlePointerDown ==
    /\ ~pdInput.pointerActive
    /\ \E x \in PointerXs :
          PaddleSet(movePaddleTo(Paddle, x), [pdInput EXCEPT !.pointerActive = TRUE],
                    "pointerdown")

\* pointermove: movePaddleTo while the pointer is active
PaddlePointerMove ==
    /\ pdInput.pointerActive
    /\ \E x \in PointerXs : PaddleSet(movePaddleTo(Paddle, x), pdInput, "pointermove")

\* pointerup
PaddlePointerUp ==
    /\ pdInput.pointerActive
    /\ PaddleSet(Paddle, [pdInput EXCEPT !.pointerActive = FALSE], "pointerup")

PaddleNext ==
    \/ PaddleStep
    \/ PaddleKey
    \/ PaddlePointerDown
    \/ PaddlePointerMove
    \/ PaddlePointerUp
(***************************************************************************)
(* POST /api/score (src/app/api/score/route.ts), one step per await, for   *)
(* requests that name the same weekKey and playerId.                       *)
(***************************************************************************)
ScoreReqs == 1..NumScoreReqs

\* const maxScore = 1500 + level * 4500
maxScore(lv) == 1500 + lv * 4500

\* The checks before the first await: "" when the body passes, else the error.
bodyError(body) ==
    IF ~body.hasIds THEN "bad request"
    ELSE IF body.score > maxScore(body.level) THEN "score rejected"
    ELSE ""

\* What select("id,score").eq(...).eq(...).limit(1) can return: the id of any
\* row of the pair, 0 when there is none.
selectable(rows) == IF rows = << >> THEN {0} ELSE 1..Len(rows)

\* Lines 32-36 after the select returned the row prev with the score it had.
keepsPrev(prevId, prevScore, sent) == prevId # 0 /\ prevScore >= sent

\* update({score, level, name}).eq("id", prev.id)
updateRow(rows, id, sent) == [rows EXCEPT ![id] = sent]

\* insert({...}): a second row of the pair is refused when the table has the
\* constraint; the route does not look at the result.
insertRow(rows, sent, unique) ==
    IF unique /\ rows # << >> THEN rows ELSE Append(rows, sent)

NewReq == [pc |-> "new", score |-> 0, prev |-> 0, status |-> 0]

ScoreIdle ==
    /\ scUnique = FALSE
    /\ scRows = << >>
    /\ scReqs = << >>
    /\ scOp = 0

\* The pair has no row yet, or one from an earlier match.
ScoreInit ==
    /\ scUnique \in BOOLEAN
    /\ scRows \in {<< >>, << 5 >>}
    /\ scReqs = [r \in ScoreReqs |-> NewReq]
    /\ scOp = 0

ScoreFixed == UNCHANGED << scUnique, earlyVars, profVars, bounceVars, srvVars,
                           boardVars, submitVars, localVars, storedVars, dropVars,
                           comboVars, commitVars, paddleVars,
        weeklyVars >>

\* The bodies sent: a score of level 1, one beyond maxScore, one without
\* playerId.
ScoreBodies ==
    {[hasIds |-> TRUE, score |-> s, level |-> 1] : s \in {10, 30, 7000}}
        \cup {[hasIds |-> FALSE, score |-> 10, level |-> 1]}

\* A request arrives: lines 5-30, up to the answer of the select.
ScoreSelect ==
    /\ \E r \in ScoreReqs, body \in ScoreBodies :
          /\ scReqs[r].pc = "new"
          /\ scOp' = r
          /\ IF bodyError(body) # ""
             THEN scReqs' = [scReqs EXCEPT ![r] = [pc |-> "done", score |-> body.score,
                                                  prev |-> 0, status |-> 400]]
             ELSE \E id \in selectable(scRows) :
                     LET prevScore == IF id = 0 THEN 0 ELSE scRows[id]
                     IN  scReqs' = [scReqs EXCEPT ![r] =
                            IF keepsPrev(id, prevScore, body.score)
                            THEN [pc |-> "done", score |-> body.score, prev |-> id,
                                  status |-> 200]
                            ELSE [pc |-> "selected", score |-> body.score, prev |-> id,
                                  status |-> 0]]
    /\ UNCHANGED scRows
    /\ ScoreFixed

\* Lines 38-59: the update or the insert, and the answer.
ScoreWrite ==
    /\ \E r \in ScoreReqs :
          /\ scReqs[r].pc = "selected"
          /\ scOp' = r
          /\ scRows' = IF scReqs[r].prev # 0
                       THEN updateRow(scRows, scReqs[r].prev, scReqs[r].score)
                       ELSE insertRow(scRows, scReqs[r].score, scUnique)
          /\ scReqs' = [scReqs EXCEPT ![r].pc = "done", ![r].status = 200]
    /\ ScoreFixed

ScoreNext == ScoreSelect \/ ScoreWrite
(***************************************************************************)
(* LocalLeaderboard of the Phase-2 app: getWeekly and submitWeekly on the  *)
(* item of localStorage, called by the win handler.                        *)
(***************************************************************************)
WEEKLY_KEEP == 10

NoWeekly == [weekKey |-> 0, top |-> << >>]

\* getWeekly(weekKey): what it returns, which is also what the item holds
\* after it.
getWeekly(item, weekKey) ==
    IF item.weekKey = 0 \/ item.weekKey # weekKey
    THEN [weekKey |-> weekKey, top |-> << >>]
    ELSE item

\* base.top.filter((e) => e.playerId !== entry.playerId)
RECURSIVE withoutPlayer(_, _)
withoutPlayer(top, playerId) ==
    IF top = << >> THEN << >>
    ELSE IF Head(top).playerId = playerId THEN withoutPlayer(Tail(top), playerId)
    ELSE << Head(top) >> \o withoutPlayer(Tail(top), playerId)

\* One step of the stable sort((a, b) => b.score - a.score): e goes behind
\* the entries that do not have a lower score.
RECURSIVE insertByScore(_, _)
insertByScore(sorted, e) ==
    IF sorted = << >> THEN << e >>
    ELSE IF Head(sorted).score >= e.score
         THEN << Head(sorted) >> \o insertByScore(Tail(sorted), e)
         ELSE << e >> \o sorted

RECURSIVE sortByScore(_)
sortByScore(list) ==
    IF list = << >> THEN << >>
    ELSE insertByScore(sortByScore(SubSeq(list, 1, Len(list) - 1)), list[Len(list)])

\* submitWeekly(weekKey, entry): the item it stores and returns.
submitWeekly(item, weekKey, entry) ==
    LET base == getWeekly(item, weekKey)
        filtered == withoutPlayer(base.top, entry.playerId)
        sorted == sortByScore(Append(filtered, entry))
        merged == SubSeq(sorted, 1, Min(WEEKLY_KEEP, Len(sorted)))
    IN  [weekKey |-> weekKey, top |-> merged]

NoWeeklyEntry == [playerId |-> "", score |-> 0]

WeeklyIdle ==
    /\ wkStored = NoWeekly
    /\ wkWeek = 0
    /\ wkBefore = << >>
    /\ wkEntry = NoWeeklyEntry
    /\ wkSubmits = 0

\* No item yet, or the board of an earlier week.
WeeklyInit ==
    /\ wkStored \in {NoWeekly,
                     [weekKey |-> 1, top |-> << [playerId |-> "p1", score |-> 90] >>]}
    /\ wkWeek \in {1, 2}
    /\ wkBefore = << >>
    /\ wkEntry = NoWeeklyEntry
    /\ wkSubmits = 0

WeeklyFixed == UNCHANGED << earlyVars, profVars, bounceVars, srvVars, boardVars,
                            submitVars, localVars, storedVars, dropVars, comboVars,
                            commitVars, paddleVars, scoreVars >>

\* The win handler: lb.submitWeekly(wk, { playerId: next.playerId, name:
\* "You", score: e.score, ts }), for the player of the stored profile (a
\* profile made anew has another playerId).
SubmitWeekly ==
    /\ wkSubmits < MaxWeeklySubmits
    /\ \E playerId \in {"p1", "p2"}, won \in {40, 90, 120} :
          LET entry == [playerId |-> playerId, score |-> won]
          IN /\ wkBefore' = getWeekly(wkStored, wkWeek).top
             /\ wkEntry' = entry
             /\ wkStored' = submitWeekly(wkStored, wkWeek, entry)
    /\ wkSubmits' = wkSubmits + 1
    /\ UNCHANGED wkWeek
    /\ WeeklyFixed

\* The next week begins.
WeekPasses ==
    /\ wkWeek = 1
    /\ wkWeek' = 2
    /\ UNCHANGED << wkStored, wkBefore, wkEntry, wkSubmits >>
    /\ WeeklyFixed

WeeklyNext == SubmitWeekly \/ WeekPasses
(***************************************************************************)
(* Specifications.                                                         *)
(***************************************************************************)
FinalIdle == CommitIdle /\ PaddleIdle /\ ScoreIdle /\ WeeklyIdle

LastIdle == LocalIdle /\ StoredIdle /\ DropIdle /\ ComboIdle /\ FinalIdle

LateIdle == ProfIdle /\ BounceIdle /\ SrvIdle /\ BoardIdle /\ SubmitIdle /\ LastIdle

PureIdle == DailyInit /\ AppIdle /\ LoadIdle /\ GenIdle /\ StreakIdle

InitDaily == DailyInit /\ AppIdle /\ LoadIdle /\ GenIdle /\ StreakIdle /\ LateIdle

SpecDaily == InitDaily /\ [][DailyNext]_vars

InitApp == DailyInit /\ AppInit /\ LoadIdle /\ GenIdle /\ StreakIdle /\ LateIdle

SpecApp == InitApp /\ [][AppNext]_vars

InitLoadAttempts == DailyInit /\ LoadInit /\ GenIdle /\ StreakIdle /\ LateIdle

SpecLoadAttempts == InitLoadAttempts /\ [][LoadNext]_vars

InitEngine == DailyInit /\ AppIdle /\ LoadIdle /\ GenIdle /\ StreakIdle /\ LateIdle

SpecEngine == InitEngine /\ [][EngineNext]_vars

InitLevelBricks == DailyInit /\ AppIdle /\ LoadIdle /\ GenInit /\ StreakIdle /\ LateIdle

SpecLevelBricks == InitLevelBricks /\ [][GenNext]_vars

InitStreak == DailyInit /\ AppIdle /\ LoadIdle /\ GenIdle /\ StreakInit /\ LateIdle

SpecStreak == InitStreak /\ [][StreakNext]_vars

InitProfile == PureIdle /\ ProfInit /\ BounceIdle /\ SrvIdle /\ BoardIdle /\ SubmitIdle /\ LastIdle

SpecProfile == InitProfile /\ [][ProfNext]_vars

InitBounce == PureIdle /\ ProfIdle /\ BounceInit /\ SrvIdle /\ BoardIdle /\ SubmitIdle /\ LastIdle

SpecBounce == InitBounce /\ [][BounceNext]_vars

InitServer == PureIdle /\ ProfIdle /\ BounceIdle /\ SrvInit /\ BoardIdle /\ SubmitIdle /\ LastIdle

SpecServer == InitServer /\ [][SrvNext]_vars

InitBoard == PureIdle /\ ProfIdle /\ BounceIdle /\ SrvIdle /\ BoardInit /\ SubmitIdle /\ LastIdle

SpecBoard == InitBoard /\ [][BoardNext]_vars

InitSubmit == PureIdle /\ LateIdle

\* The daily variant played with its two settings (practice mode, infinite
\* lives) left as they start, which is where scores are committed and
\* submitted, together with the settling of the submissions.
SubmitGame ==
    \/ Frame
    \/ Render
    \/ DepsChange
    \/ PointerDown
    \/ PrimaryButton
    \/ ResetButton

SpecSubmit == InitSubmit /\ [][SubmitGame \/ SubmitNext]_vars

InitLocal == PureIdle /\ ProfIdle /\ BounceIdle /\ SrvIdle /\ BoardIdle /\ SubmitIdle /\ LocalInit /\ StoredIdle /\ DropIdle /\ ComboIdle /\ FinalIdle

SpecLocal == InitLocal /\ [][LocalNext]_vars

InitStored == PureIdle /\ ProfIdle /\ BounceIdle /\ SrvIdle /\ BoardIdle /\ SubmitIdle /\ LocalIdle /\ StoredInit /\ DropIdle /\ ComboIdle /\ FinalIdle

SpecStored == InitStored /\ [][StoredNext]_vars

InitDrops == PureIdle /\ ProfIdle /\ BounceIdle /\ SrvIdle /\ BoardIdle /\ SubmitIdle /\ LocalIdle /\ StoredIdle /\ DropInit /\ ComboIdle /\ FinalIdle

SpecDrops == InitDrops /\ [][DropNext]_vars

InitCombo == PureIdle /\ ProfIdle /\ BounceIdle /\ SrvIdle /\ BoardIdle /\ SubmitIdle /\ LocalIdle /\ StoredIdle /\ DropIdle /\ ComboInit /\ FinalIdle

SpecCombo == InitCombo /\ [][ComboNext]_vars

OldIdle ==
    /\ PureIdle /\ ProfIdle /\ BounceIdle /\ SrvIdle /\ BoardIdle /\ SubmitIdle
    /\ LocalIdle /\ StoredIdle /\ DropIdle /\ ComboIdle

InitCommit == OldIdle /\ CommitInit /\ PaddleIdle /\ ScoreIdle /\ WeeklyIdle

SpecCommit == InitCommit /\ [][CommitNext]_vars

InitPaddle == OldIdle /\ CommitIdle /\ PaddleInit /\ ScoreIdle /\ WeeklyIdle

SpecPaddle == InitPaddle /\ [][PaddleNext]_vars

InitScore == OldIdle /\ CommitIdle /\ PaddleIdle /\ ScoreInit /\ WeeklyIdle

SpecScore == InitScore /\ [][ScoreNext]_vars

InitWeekly == OldIdle /\ CommitIdle /\ PaddleIdle /\ ScoreIdle /\ WeeklyInit

SpecWeekly == InitWeekly /\ [][WeeklyNext]_vars
(***************************************************************************)
(* Claims about the daily variant.                                         *)
(***************************************************************************)

\* C1: in daily mode every entry into win or gameover is committed exactly
\* once: the step that enters win, and the render that shows gameover, each
\* make one saveLeaderboard call and one submitRemoteScore call (so the second
\* of two wins in one run is committed as well as the first).
C1_EveryOccurrenceCommitted ==
    /\ [][(~practiceMode /\ gameState # "win" /\ gameState' = "win")
            => (lbSaves' = lbSaves + 1 /\ remoteSubmits' = remoteSubmits + 1)]_vars
    /\ [][(~practiceMode' /\ lastCommittedStateRef # "gameover"
                          /\ lastCommittedStateRef' = "gameover")
            => (lbSaves' = lbSaves + 1 /\ remoteSubmits' = remoteSubmits + 1)]_vars

\* C2: no entry into win or gameover is committed more than once: there are
\* never more saveLeaderboard / submitRemoteScore calls than entries.
C2_AtMostOneCommitPerOccurrence ==
    lbSaves <= occurrences /\ remoteSubmits <= occurrences

\* A stale frame ran the win check again for the one win there was: the commit
\* was asked for twice and made once.
C2_Witness ==
    /\ gameState = "win"
    /\ occurrences = 1
    /\ commitCalls = 2
    /\ lbSaves = 1

\* C7: a launch input in state idle makes the state running (attempts are
\* unlimited in this variant, so play is always allowed).
C7_LaunchFromIdleRuns ==
    [][(gameState = "idle" /\ lastOp' = "launch") => gameState' = "running"]_vars


\* No multiball drop is on screen (none that a frame's stepDrops could catch).
NoMultiballDrop == \A k \in 1..Len(dropsRef) : dropsRef[k] # "multiball"

AllLaunched(balls) == \A i \in 1..Len(balls) : balls[i].launched

C14_AtMostFourBalls == Len(ballsRef) <= 4
(***************************************************************************)
(* Claims about the Phase-2 app.                                           *)
(***************************************************************************)

\* C3: a run started and played in practice mode that ends (win or lose event
\* of a step) leaves attemptsLeft and the persisted attempts record as they were and makes
\* no submitWeekly call.
C3_PracticeRunEndChangesNothing ==
    [][(runMode = "practice" /\ engineState = "running"
                             /\ engineState' \in {"win", "gameover"})
         => /\ attemptsLeft' = attemptsLeft
            /\ storedAttempts' = storedAttempts
            /\ weeklySubmits' = weeklySubmits]_vars

\* C4: a run played in daily mode from its startGame on, through any number of
\* Next level, takes one attempt at most: attemptsLeft is not decremented a
\* second time.
C4_OneAttemptPerRun ==
    runMode = "daily" => runDecrements <= 1

\* C5: when a run played in daily mode from its startGame on ends (a handler of
\* the mounted component takes the engine from running / paused to idle,
\* gameover or win, Reset included), it has decremented attemptsLeft.
C5_EveryStartedRunConsumes ==
    [][(runMode = "daily" /\ mounted' /\ engineState \in {"running", "paused"}
                         /\ engineState' \in {"idle", "gameover", "win"})
         => runDecrements' >= 1]_vars

\* C6: while practice mode is off and attemptsLeft <= 0, no step takes the
\* engine from idle, gameover or win to running.
C6_LockedOutNeverStarts ==
    [][(~appPracticeMode /\ attemptsLeft <= 0
                         /\ engineState \in {"idle", "gameover", "win"})
         => engineState' # "running"]_vars

\* Space / Enter was pressed on the game-over screen with no attempt left and
\* practice off: the engine stayed in gameover.
C6_Witness ==
    /\ lastHandler = "key"
    /\ ~appPracticeMode
    /\ attemptsLeft = 0
    /\ engineState = "gameover"

\* C8: the attempts value, in React state and in storage, is always in
\* 0..DAILY_ATTEMPTS+1; the stored value of a day grows only by the daily
\* reward's +1, and the mounted component's value of a day never grows.
C8_AttemptsRangeAndMonotone ==
    /\ [](/\ attemptsLeft \in 0..(DAILY_ATTEMPTS + 1)
          /\ storedAttempts.present => storedAttempts.left \in 0..(DAILY_ATTEMPTS + 1))
    /\ [][(/\ storedAttempts.present
           /\ storedAttempts'.dateKey = storedAttempts.dateKey
           /\ storedAttempts'.left > storedAttempts.left)
            => /\ lastHandler' = "reward"
               /\ storedAttempts'.left = storedAttempts.left + 1]_vars
    /\ [][(mounted /\ mounted' /\ dateKey' = dateKey)
            => attemptsLeft' <= attemptsLeft]_vars

\* The reward of a third streak day was given after the day's reset: 4 attempts.
C8_Witness ==
    /\ lastHandler = "reward"
    /\ attemptsLeft = DAILY_ATTEMPTS + 1
    /\ storedAttempts = StoredRecord(today, DAILY_ATTEMPTS + 1)

\* C9: loadAttempts with a stored date key that is not today's key returns
\* {today, DAILY_ATTEMPTS} and leaves that record stored; with today's key and
\* a number for left it returns the stored left clamped to 0..DAILY_ATTEMPTS+1
\* and leaves storage as it was.
C9_LoadAttempts ==
    loadDone =>
        /\ loadRaw.dateKey # today =>
              /\ loadResult = [dateKey |-> today, left |-> DAILY_ATTEMPTS]
              /\ storedAttempts = StoredRecord(today, DAILY_ATTEMPTS)
        /\ (loadRaw.present /\ loadRaw.dateKey = today /\ loadRaw.leftIsNumber) =>
              /\ loadResult = [dateKey |-> today,
                               left |-> clamp(loadRaw.left, 0, DAILY_ATTEMPTS + 1)]
              /\ storedAttempts = loadRaw

\* A record of an earlier day with one attempt left was found and reset.
C9_Witness ==
    /\ loadDone
    /\ loadRaw = StoredRecord(1, 1)
    /\ today = 2
    /\ loadResult.left = DAILY_ATTEMPTS

\* C10: whenever the engine enters running from idle, gameover or win, its
\* score is 0.
C10_NewMatchScoreZero ==
    [][(engineState \in {"idle", "gameover", "win"} /\ engineState' = "running")
         => engineScore' = 0]_vars

(***************************************************************************)
(* Claims about class GameEngine.                                          *)
(***************************************************************************)
engineFields == << engineState, engineLevel, engineScore, engineBricks, engineAlive,
                   bricksRemaining, combo, cw, paddleW, slowMul, fireball, magnet,
                   stuckToPaddle, effectUntil, powerUps >>

\* The handler that ran is engine.step(ts) on a running engine.
RunningStep == lastHandler' = "step" /\ engineState = "running"

\* C11: from the engine's entering running to the next win / gameover, no
\* call (step, togglePause, movePaddleTo, releaseBallFromMagnet, the
\* applyPowerUp of a step) lowers engine.score, and a step that hits a brick
\* raises it.
C11_ScoreNeverDecreasesInMatch ==
    [][/\ (/\ engineState \in {"running", "paused"}
           /\ engineState' \in {"running", "paused", "win", "gameover"})
            => engineScore' >= engineScore
       /\ (RunningStep /\ engineBricks' # engineBricks)
            => engineScore' > engineScore]_vars

\* A level-3 brick of hp 2 was hit (+3) and then destroyed by a quick second
\* hit (+10 and the combo bonus 3).
C11_Witness ==
    /\ lastHandler = "step"
    /\ engineState = "running"
    /\ events = << "score" >>
    /\ combo = 2
    /\ engineScore = 16

\* C12: the state is win only while no brick of the level is alive, it becomes
\* win only by the step that destroys the last alive brick, and that step
\* always makes it win (so after N-1 of N destructions it is still running).
C12_WinExactlyAtLastBrick ==
    /\ [](engineState = "win" => AliveBricks = {})
    /\ [][/\ (engineState # "win" /\ engineState' = "win")
               => RunningStep /\ AliveBricks # {} /\ AliveBricks' = {}
          /\ (RunningStep /\ AliveBricks # {} /\ AliveBricks' = {})
               => engineState' = "win"
          /\ (RunningStep /\ AliveBricks' # {})
               => engineState' \in {"running", "gameover"}]_vars

\* The second of the two hp-1 bricks of level 1 was destroyed: score, state,
\* win were emitted in this order.
C12_Witness ==
    /\ lastHandler = "step"
    /\ engineLevel = 1
    /\ engineState = "win"
    /\ engineBricks = << 0, 0 >>
    /\ events = << "score", "state", "win" >>

\* C15: a step whose updateEffectsTimers ended the wide effect, and that picked
\* up no new wide, leaves paddleW at the width hardResetWorld gave the level.
C15_WideExpiryRestoresBaseline ==
    (lastHandler = "step" /\ "wide" \in reverted
                          /\ \A k \in 1..Len(caught) : caught[k] # "wide")
        => paddleW = hardResetPaddleW(cw, engineLevel)

\* What the effect of a type amounts to.
Magnitude(type) ==
    IF type = "wide" THEN paddleW
    ELSE IF type = "slow" THEN slowMul
    ELSE IF type = "fire" THEN fireball
    ELSE magnet

MagnitudeNext(type) ==
    IF type = "wide" THEN paddleW'
    ELSE IF type = "slow" THEN slowMul'
    ELSE IF type = "fire" THEN fireball'
    ELSE magnet'

EffectMs(type) ==
    IF type = "wide" THEN EFFECT_WIDE_MS
    ELSE IF type = "slow" THEN EFFECT_SLOW_MS
    ELSE IF type = "fire" THEN EFFECT_FIRE_MS
    ELSE EFFECT_MAGNET_MS

\* C16: a step that picks up one power-up of a type whose effect is on (its
\* deadline is set and not passed) leaves the effect's magnitude as it was and
\* sets the deadline to now + the effect's duration.
C16_RepeatedPickUpKeepsMagnitude ==
    [][\A type \in EffectTypes :
          (RunningStep /\ caught' = << type >>
                       /\ effectUntil[type] # 0 /\ now <= effectUntil[type])
            => /\ MagnitudeNext(type) = Magnitude(type)
               /\ effectUntil'[type] = now + EffectMs(type)]_vars

\* The effect of a type is on after the step: its deadline is the step's
\* now + duration and its magnitude is the effect's.
OnAfter(type) ==
    /\ effectUntil'[type] = now + EffectMs(type)
    /\ now' <= effectUntil'[type]
    /\ type = "wide" => paddleW' > 1000 * Max(86, (cw * 23) \div 100)
    /\ type = "slow" => slowMul' = 72
    /\ type = "fire" => fireball'
    /\ type = "magnet" => magnet'

C18_StepAndPauseOutsideRunning ==
    [][/\ (lastHandler' = "step" /\ engineState # "running")
            => UNCHANGED engineFields /\ events' = << >>
       /\ lastHandler' = "togglePause"
            => /\ engineState = "running" => engineState' = "paused"
               /\ engineState = "paused" => engineState' = "running"
               /\ engineState \in {"idle", "gameover", "win"}
                    => UNCHANGED engineState /\ events' = << >>
               /\ UNCHANGED << engineLevel, engineScore, engineBricks,
                               bricksRemaining, combo, cw, paddleW, slowMul,
                               fireball, magnet, stuckToPaddle, effectUntil,
                               powerUps >>]_vars

\* step ran on a paused engine whose slow effect had expired: the effect is
\* still set, nothing was emitted.
C18_Witness ==
    /\ lastHandler = "step"
    /\ engineState = "paused"
    /\ effectUntil.slow # 0
    /\ now > effectUntil.slow
    /\ slowMul = 72
    /\ events = << >>

expectedStreak(case) ==
    IF case.last = NoDay THEN 1
    ELSE IF dayNumber(case.today) - dayNumber(case.last) = 1 THEN case.prev + 1
    ELSE IF case.today = case.last THEN case.prev
    ELSE 1

\* C20: on a day's load the new streak count is previous + 1 when the last-play
\* key is yesterday's, unchanged when it is today's, and 1 in every other case,
\* for the streak effect of part_005 and for applyDailyReward.
C20_StreakTransition ==
    stOp \in {"effect", "reward"} => stStreak = expectedStreak(stCase)

\* Both computations met 2024-02-29 as the last play day on 2024-03-01 and
\* went from 2 to 3.
C20_Witness ==
    /\ stOp = "reward"
    /\ stCase = [last |-> [y |-> 2024, m |-> 2, d |-> 29], prev |-> 2,
                 today |-> [y |-> 2024, m |-> 3, d |-> 1]]
    /\ stStreak = 3
    /\ stProfile.streakDays = 3
    /\ stStore.last = dateKeyText(stToday)
    /\ stCount = 3
    /\ stLastDay.effect = stToday
(***************************************************************************)
(* Claims about the Phase-2 profile (SpecProfile).                         *)
(***************************************************************************)
\* C21: the daily reward is granted at most once per calendar day: no day
\* has two granting calls of applyDailyReward, and a call on a day on which
\* applyDailyReward has run before returns the profile and the attempts it
\* was given, with no message.
C21_RewardOncePerDay ==
    /\ \A d \in Days : pfGrants[d].grants <= 1
    /\ pfCall.earlier >= 1 =>
          /\ pfCall.message = "none"
          /\ pfCall.out = pfCall.profile
          /\ pfCall.outAttempts = pfCall.attemptsLeft

\* The page was opened again on a day whose reward (XP and a life, streak 3)
\* had been granted, after a match had been won in between.
C21_Witness ==
    /\ pfOp = "mount"
    /\ pfCall.earlier >= 1
    /\ pfGrants[pfCall.day].grants = 1
    /\ pfCall.profile.streakDays = 3
    /\ pfOps >= 1

\* C22: every profile a handler stores or puts into React state has
\* playerLevel = computePlayerLevel(xp), and no handler lowers the stored xp,
\* the xp of the state or the playerLevel of the state.
C22_LevelFollowsXp ==
    [][/\ \A p \in pfWrites' : p.playerLevel = computePlayerLevel(p.xp)
       /\ pfStoredProfile # NoProfile =>
             pfStoredProfile'.xp >= pfStoredProfile.xp
       /\ (pfProfile # NoProfile /\ pfProfile' # NoProfile) =>
             /\ pfProfile'.xp >= pfProfile.xp
             /\ pfProfile'.playerLevel >= pfProfile.playerLevel]_vars

\* A win has just raised the player's level: the handler loaded a profile of
\* one level and stored one of a higher level.
C22_Witness ==
    /\ pfOp = "win"
    /\ \E p \in pfWrites, q \in pfWrites :
          /\ q.xp > p.xp
          /\ q.playerLevel > p.playerLevel
          /\ q = pfProfile
          /\ q = pfStoredProfile
(***************************************************************************)
(* Claims about the paddle test of part_005 (SpecBounce).                  *)
(***************************************************************************)
squaredSpeed(vx, vy) == vx * vx + vy * vy

\* C23: when the paddle test bounces a ball, vx^2 + vy^2 after the bounce is
\* the value before it (to 1/1000 of it, the rounding of the fixed-point
\* numbers) and vy < 0; a ball that does not move downward is not bounced
\* and keeps its position and velocity.
C23_BouncePreservesSpeed ==
    bnDone =>
       /\ bnHit =>
            /\ Abs(squaredSpeed(bnVx, bnVy) - squaredSpeed(bnBefore.vx, bnBefore.vy))
                 <= squaredSpeed(bnBefore.vx, bnBefore.vy) \div 1000
            /\ bnVy < 0
            /\ bnBefore.vy > 0
       /\ bnBefore.vy <= 0 =>
            /\ ~bnHit
            /\ << bnY, bnVx, bnVy >> = << bnBefore.y, bnBefore.vx, bnBefore.vy >>

\* A ball coming down steeply was bounced at the very end of the paddle, where
\* |hit| > 1: it leaves flat, with another vx and vy but the same speed.
C23_Witness ==
    /\ bnDone
    /\ bnHit
    /\ bnW = 92
    /\ bnDx = -53
    /\ bnBefore.vx = 0
    /\ bnVx < -20000
    /\ bnVy < 0
(***************************************************************************)
(* Claims about POST /api/leaderboard (SpecServer).                        *)
(***************************************************************************)
samePair(r, q) ==
    r.daily_id = q.daily_id /\ r.address = q.address /\ r.mode = q.mode

\* C24: under every interleaving of submissions, bb_scores holds at most one
\* row per (dailyId, address), and a row's (score, level) is replaced only by
\* a tuple that is lexicographically greater.
C24_OneRowOnlyImproved ==
    [][/\ \A k \in 1..Len(srvScores'), m \in 1..Len(srvScores') :
             samePair(srvScores'[k], srvScores'[m]) => k = m
       /\ \A k \in 1..Len(srvScores) :
             srvScores'[k] # srvScores[k] =>
                \/ srvScores'[k].score > srvScores[k].score
                \/ /\ srvScores'[k].score = srvScores[k].score
                   /\ srvScores'[k].level > srvScores[k].level]_vars

recorded(nonce) == \E k \in 1..Len(srvNonces) : srvNonces[k].nonce = nonce

\* C25: a nonce is accepted (ok: true) by at most one request, whatever the
\* interleaving, and a request that arrives with a nonce that is recorded is
\* not accepted and changes no table.
C25_NonceAcceptedOnce ==
    [][/\ \A i \in 1..Len(srvReqs'), j \in 1..Len(srvReqs') :
             (/\ srvReqs'[i].response.ok
              /\ srvReqs'[j].response.ok
              /\ srvReqs'[i].f.nonce = srvReqs'[j].f.nonce) => i = j
       /\ (Len(srvReqs') > Len(srvReqs) /\ recorded(srvReqs'[Len(srvReqs')].f.nonce)) =>
             /\ srvReqs'[Len(srvReqs')].pc = "done"
             /\ ~srvReqs'[Len(srvReqs')].response.ok
             /\ srvScores' = srvScores]_vars

\* C26: a submission is accepted only if its message is the canonical text
\* of its own dailyId, score, level and nonce.
C26_MessageIsCanonical ==
    \A i \in 1..Len(srvReqs) :
       srvReqs[i].response.ok =>
          srvReqs[i].f.message =
             canonicalMessage(srvReqs[i].f.dailyId, srvReqs[i].f.score.n,
                              srvReqs[i].f.level.n, srvReqs[i].f.nonce)

\* The requests the claim lists: one field of a client's body is missing,
\* malformed, out of range, or does not fit the signature.
failsValidation(body) == body \in OneFieldOff

\* C27: a request that fails validation is answered at once with ok: false
\* and status 400, 401 or 409, and no step of it changes bb_nonces or
\* bb_scores: whenever a table changes, the request that made the step is
\* not one that fails validation.
C27_InvalidRequestLeavesTables ==
    [][/\ \A i \in 1..Len(srvReqs') :
             failsValidation(srvReqs'[i].body) =>
                /\ srvReqs'[i].pc = "done"
                /\ ~srvReqs'[i].response.ok
                /\ srvReqs'[i].response.status \in {400, 401, 409}
       /\ (srvNonces' # srvNonces \/ srvScores' # srvScores) =>
             \E i \in 1..Len(srvReqs) :
                /\ srvReqs'[i] # srvReqs[i]
                /\ ~failsValidation(srvReqs[i].body)]_vars

\* A request signed by another address than the one it names was answered 401
\* after a client's request had been accepted and had stored its row.
C27_Witness ==
    /\ Len(srvReqs) = 2
    /\ srvReqs[1].response.ok
    /\ srvReqs[2].body.address = UNRELATED_ADDRESS
    /\ srvReqs[2].response = bad("signature address mismatch", 401)
    /\ Len(srvScores) = 1
    /\ Len(srvNonces) = 1
(***************************************************************************)
(* Claims about the remote board (SpecBoard).                              *)
(***************************************************************************)
\* C28: when GET answered a call of fetchRemoteLeaderboard successfully with
\* k >= 1 rows and the client has taken the response, the remote board holds
\* those rows (at most 10 of them), in rank order.
C28_ClientStoresRows ==
    rbApplied # 0 =>
       LET rows == rbFetches[rbApplied].response.json.items.items
       IN  Len(rows) >= 1 =>
              /\ Len(remoteLb) = Min(10, Len(rows))
              /\ \A k \in 1..Len(remoteLb) :
                    /\ remoteLb[k].score = rows[k].score
                    /\ remoteLb[k].level = rows[k].level

\* C29: a response is given to setRemoteLb only if no call issued later has
\* had its response given to it: the call whose response the board was last
\* set from never moves back to an earlier one.
C29_StaleResponseNotApplied == [][rbApplied' >= rbApplied]_vars
(***************************************************************************)
(* Claims about the remote submission of part_005 (SpecSubmit).            *)
(***************************************************************************)
\* A step in which a submission failed: its signing settled without a POST
\* being sent, or its POST settled without the refresh being called.
submitFailed ==
    \/ sbSigned' > sbSigned /\ sbPosted' = sbPosted
    \/ sbAnswered' > sbAnswered /\ sbRefreshes' = sbRefreshes

\* C30: a failure of the remote submission changes no gameplay state (game
\* state, score, lives, level, bricks, balls, drops) and does not undo the
\* local leaderboard entry (the saves made, the key of the last commit); and
\* every call of submitRemoteScore, hence every POST, comes after the save of
\* its local entry.
C30_SubmitFailureLeavesGame ==
    [][/\ submitFailed =>
             UNCHANGED << gameState, gameStateRef, score, scoreRef, lives, level,
                          levelRef, bricksRef, ballsRef, dropsRef, practiceMode,
                          lbSaves, lastCommitKeyRef, lastCommittedStateRef >>
       /\ remoteSubmits' <= lbSaves'
       /\ sbPosted' <= lbSaves']_vars

\* A score was committed and its submission found no signer (or the wallet
\* refused): the local entry is saved and the next match is running.
C30_Witness ==
    /\ sbSigned = 1
    /\ sbPosted = 0
    /\ lbSaves = 1
    /\ gameState = "running"
(***************************************************************************)
(* Claims about the local leaderboard of part_005 (SpecLocal).             *)
(***************************************************************************)
\* a stands before b in the order score descending, level descending,
\* timestamp descending
before(a, b) ==
    \/ a.score > b.score
    \/ a.score = b.score /\ a.level > b.level
    \/ a.score = b.score /\ a.level = b.level /\ a.t > b.t

timesIn(arr, e) == Cardinality({i \in 1..Len(arr) : arr[i] = e})

\* C31: after a call of saveLeaderboard the stored board has at most 10
\* entries, none standing behind an entry it comes before in the order (score
\* descending, level descending, timestamp descending), and it holds the 10
\* best of the entries stored before plus the new one: as many entries as
\* there were, up to 10, each of them one of those, and no entry left out
\* that comes before an entry kept; the lb state holds the same entries.
C31_BoardKeepsTenBest ==
    lsSaves >= 1 =>
        LET all == Append(lsBefore, lsEntry)
            kept == lsRaw.items
        IN /\ lsRaw.kind = "array"
           /\ Len(kept) = Min(Len(all), LB_KEEP)
           /\ \A i \in 1..Len(kept), j \in 1..Len(kept) :
                 i < j => ~before(kept[j], kept[i])
           /\ \A i \in 1..Len(kept) :
                 timesIn(kept, kept[i]) <= timesIn(all, kept[i])
           /\ \A i \in 1..Len(all) :
                 timesIn(kept, all[i]) < timesIn(all, all[i])
                    => \A j \in 1..Len(kept) : ~before(all[i], kept[j])
           /\ lsLb = kept

\* A full board was given an entry that belongs in its middle: the last of
\* the eleven was dropped.
C31_Witness ==
    /\ lsSaves >= 1
    /\ Len(lsBefore) = LB_KEEP
    /\ Len(lsRaw.items) = LB_KEEP
    /\ \E i \in 2..LB_KEEP : lsRaw.items[i] = lsEntry
    /\ lsRaw.items[LB_KEEP] # lsBefore[LB_KEEP]
(***************************************************************************)
(* Claims about the stored values of the Phase-2 app (SpecStored).         *)
(***************************************************************************)
\* A record of attempts as the app expects it.
wellFormedAttempts(r, t) ==
    r.dateKey = t /\ r.left \in 0..(DAILY_ATTEMPTS + 1)

\* A profile as the app expects it.
wellFormedProfile(p) ==
    /\ p.xp.type = "number"
    /\ p.playerLevel = computePlayerLevel(p.xp.num)
    /\ p.unlockedSkins.type = "array"
    /\ "neon" \in p.unlockedSkins.set
    /\ p.unlockedSkins.set \subseteq SkinIds
    /\ p.selectedSkin.type = "string"
    /\ p.selectedSkin.str \in p.unlockedSkins.set
    /\ p.others = Text("valid", 0)

\* C32: for every stored value, loadAttempts and loadProfile do not throw,
\* return a well-formed record, and leave that record in storage.
C32_LoadNeverThrows ==
    skDone =>
        /\ ~skOut.threw
        /\ skOut.ret = skOut.persisted
        /\ skKey = "attempts" => wellFormedAttempts(skOut.ret, skToday)
        /\ skKey = "profile" => wellFormedProfile(skOut.ret)
(***************************************************************************)
(* Claims about the falling power-ups of both programs (SpecDrops).        *)
(***************************************************************************)
listed(drops, id) == \E k \in 1..Len(drops) : drops[k].id = id

pastBottom(y) ==
    IF dpProgram = "daily" THEN y > DROP_BOTTOM ELSE y - ENGINE_R > ENGINE_CH

\* C33: a drop has one fate.  applyPowerUp is called for it at most once;
\* the frame that calls it, and the frame that finds the drop past the bottom
\* boundary, take it off the list; a drop taken off without a call was past
\* the bottom, a drop with a call was not; and a drop off the list is never
\* listed again and no call is made for it any more.
C33_DropHasOneFate ==
    [][\A id \in DropIds :
          /\ dpApplied'[id] <= 1
          /\ dpApplied'[id] = 1 => ~listed(dpDrops', id)
          /\ (listed(dpDrops, id) /\ ~listed(dpDrops', id)) =>
                 IF dpApplied'[id] = 1 THEN ~pastBottom(dpLeftAt'[id])
                 ELSE pastBottom(dpLeftAt'[id])
          /\ \A k \in 1..Len(dpDrops') :
                 dpDrops'[k].id = id => ~pastBottom(dpDrops'[k].y)
          /\ ~listed(dpDrops, id) =>
                 /\ ~listed(dpDrops', id)
                 /\ dpApplied'[id] = dpApplied[id]
                 /\ dpLeftAt'[id] = dpLeftAt[id]]_vars

\* Of two drops one was caught and the other fell past the bottom.
C33_Witness ==
    /\ dpDrops = << >>
    /\ \E a, b \in DropIds :
          /\ dpApplied[a] = 1 /\ ~pastBottom(dpLeftAt[a])
          /\ dpApplied[b] = 0 /\ pastBottom(dpLeftAt[b])
(***************************************************************************)
(* Claims about the combo of the Phase-2 engine (SpecCombo).               *)
(***************************************************************************)
\* C34: after a brick hit the combo counter is the previous one plus 1 when
\* the hit comes less than 1200 ms after the previous brick hit and 1
\* otherwise; a destruction awards 10 (120 for the boss) plus
\* min(30, 3 * (combo - 1)); and every destruction awards more than every
\* hit that only lowers the hp (3, or 8 for the boss).
C34_ComboAndBonus ==
    cmHits >= 1 =>
        /\ cmCombo = IF cmHit.since < 1200
                     THEN cmHit.before + 1 ELSE 1
        /\ cmHit.destroyed =>
              LET bonus == IF 3 * (cmCombo - 1) < 30 THEN 3 * (cmCombo - 1) ELSE 30
              IN /\ cmHit.gained = (IF cmBoss THEN 120 ELSE 10) + bonus
                 /\ cmHit.gained > 8
        /\ ~cmHit.destroyed => cmHit.gained \in {3, 8}

\* A twelfth quick hit in a row destroyed a brick: the bonus stays at 30.
C34_Witness ==
    /\ cmCombo = 12
    /\ cmHit.destroyed
    /\ cmHit.gained = 40

(***************************************************************************)
(* C35: in the daily variant the score that a win commits to the           *)
(* leaderboard and to the daily best is the final score of the match, the  *)
(* points of the bricks destroyed in the clearing frame included.          *)
(***************************************************************************)
C35_WinCommitsFinalScore ==
    (wcState = "win" /\ ~wcPractice) =>
        /\ wcEntries = << wcScore >>
        /\ wcTodayBest = Max(wcBestBefore, wcScore)

(***************************************************************************)
(* C36: between an entry of the engine into running and the next call of   *)
(* start() at most one terminal event (win or lose) is emitted, and after  *)
(* it no score, win or lose event, however often step() is called.  A      *)
(* handler emits at most one terminal event, as its last event, and only   *)
(* when it takes the running engine to win or gameover; an engine that is  *)
(* not running emits no score, win or lose event; and only start() takes   *)
(* the engine from win, gameover or idle to running, while paused is       *)
(* entered from running only.                                              *)
(***************************************************************************)
Terminal == {"win", "lose"}

terminalsIn(evs) == Cardinality({n \in 1..Len(evs) : evs[n] \in Terminal})

matchEventsIn(evs) == {n \in 1..Len(evs) : evs[n] \in Terminal \cup {"score"}}

C36_OneTerminalEvent ==
    [][/\ terminalsIn(events') <= 1
       /\ terminalsIn(events') = 1
            => /\ engineState = "running"
               /\ events'[Len(events')] \in Terminal
               /\ engineState' = IF events'[Len(events')] = "win"
                                 THEN "win" ELSE "gameover"
       /\ engineState # "running" => matchEventsIn(events') = {}
       /\ (engineState \in {"win", "gameover", "idle"} /\ engineState' = "running")
            => lastHandler' = "start"
       /\ (engineState \in {"win", "gameover", "idle"} /\ engineState' = "paused")
            => engineState = "paused"]_vars

\* After the win of a boss level step was called again, and again emitted
\* nothing.
C36_Witness ==
    /\ lastHandler = "step"
    /\ engineState = "win"
    /\ isBossLevel(engineLevel)
    /\ bricksRemaining = 0
    /\ events = << >>

(***************************************************************************)
(* C37: in every reachable state of the engine bricksRemaining is the      *)
(* number of bricks with alive = true, and a brick is alive exactly when   *)
(* its hp is at least 1.                                                   *)
(***************************************************************************)
C37_RemainingCountsAlive ==
    /\ Len(engineAlive) = Len(engineBricks)
    /\ bricksRemaining = Cardinality({j \in 1..Len(engineAlive) : engineAlive[j]})
    /\ \A j \in 1..Len(engineBricks) : engineAlive[j] <=> engineBricks[j] >= 1

\* On level 3 a step has destroyed a brick while a brick of hp 2 has been hit
\* once and another not at all.
C37_Witness ==
    /\ lastHandler = "step"
    /\ engineLevel = 3
    /\ \E j, k, l \in 1..Len(engineBricks) :
          /\ ~engineAlive[j]
          /\ makeBricks(3)[k] = 2 /\ engineBricks[k] = 1
          /\ makeBricks(3)[l] = 2 /\ engineBricks[l] = 2
    /\ bricksRemaining = Len(engineBricks) - 1

(***************************************************************************)
(* C38: after every step of the running engine the paddle lies inside the  *)
(* playfield, 0 <= paddleX <= cw - paddleW, also in the step in which a    *)
(* wide power-up enlarges the paddle and in steps taken during a pointer   *)
(* drag.                                                                   *)
(***************************************************************************)
C38_PaddleInsideAfterStep ==
    pdOp = "step" => 0 <= pdX /\ pdX <= 1000 * CanvasWidth - pdW

(***************************************************************************)
(* C39: for POST /api/score, under every interleaving of requests for the  *)
(* same (weekKey, playerId), the store holds at most one row for the pair  *)
(* and the score of a row never decreases.                                 *)
(***************************************************************************)
C39_OneRowNeverLower ==
    [][/\ Len(scRows') <= 1
       /\ \A id \in 1..Len(scRows) : scRows'[id] >= scRows[id]]_vars

(***************************************************************************)
(* C40: within one week a player's score on the local weekly board is      *)
(* never replaced by a lower one: after submitWeekly the entry of the      *)
(* playerId has a score at least as high as the one it had before.         *)
(***************************************************************************)
scoresOf(top, playerId) == {top[n].score : n \in {m \in 1..Len(top) : top[m].playerId = playerId}}

C40_WeeklyScoreNeverLower ==
    wkSubmits > 0 =>
        \A was \in scoresOf(wkBefore, wkEntry.playerId) :
            \E is \in scoresOf(wkStored.top, wkEntry.playerId) : is >= was
====
